---- MODULE Spec2Model ----
(***************************************************************************)
(* The cart page of the coffee-shop client (src/app/page.tsx, the lazy     *)
(* variant) as a state machine: React state, localStorage, the async       *)
(* handlers with one step per await, and the backend that answers them.    *)
(***************************************************************************)
EXTENDS Integers, Sequences, FiniteSets, TLC

\* ------------------------------------------------------------------ bounds
MaxProduct == 1
MaxQty == 2
MaxCarts == 2
MaxPay == 2
MaxTarget == 2
MaxDetail == 2
MaxFlight == 2
MaxSubmit == 2

NULL == 0
Products == 1..MaxProduct
CartIds == 1..MaxCarts
PaySlots == 1..MaxPay
Targets == 1..MaxTarget
DetailSlots == 1..MaxDetail
OrderSlots == 1..MaxFlight
SubmitSlots == 1..MaxSubmit

VARIABLES
  mounted,     \* the mount effects have run
  cartId,      \* useState cartId (NULL = null)
  stored,      \* localStorage 'cartId' (NULL = absent)
  summary,     \* useState summary
  email,       \* useState email
  addr,        \* useState addr
  zip,         \* useState zip
  togglingId,  \* useState togglingId
  mutatingId,  \* useState mutatingId
  paying,      \* useState paying
  tog,         \* the running onToggleProduct call
  qty,         \* the running increaseQty / decreaseQty call
  pay,         \* the running onPay calls
  eff,         \* the fetchSummary calls started by the [cartId] effect
  srvNext,     \* backend: next cart id to hand out
  srvCart,     \* backend: cart contents, product -> quantity
  products,    \* useState products
  detailOpen,  \* useState detailOpen
  detailLoading, \* useState detailLoading
  detail,      \* useState detail
  cat,         \* the running fetchProducts call
  det,         \* the running openDetail calls
  route,       \* admin: the page shown, "login" or "order"
  adminToken,  \* localStorage 'adminToken' (NoToken = absent)
  orderMounted, \* AdminOrderPage: the mount effect has run
  orders,      \* AdminOrderPage: useState orders
  ordersFrom,  \* which request's response orders holds: "none", "all", "daily"
  orderLoading, \* AdminOrderPage: useState loading
  orderErr,    \* AdminOrderPage: useState err (NoErr = null)
  dailyMode,   \* AdminOrderPage: useState dailyMode
  expanded,    \* AdminOrderPage: useState expanded, as the set of opened ids
  ord,         \* AdminOrderPage: the running fetchOrders / fetchDaily calls
  username,    \* AdminLoginPage: useState username
  password,    \* AdminLoginPage: useState password
  loginLoading, \* AdminLoginPage: useState loading
  loginErr,    \* AdminLoginPage: useState err (NoErr = null)
  login,       \* AdminLoginPage: the running onSubmit call
  form,        \* AddProductModal: useState name, price, contents, stock, file
  submitting,  \* AddProductModal: useState submitting
  modalErr,    \* AddProductModal: useState err (NoErr = null)
  addOpen,     \* AdminProductsPage: useState addOpen
  list,        \* AdminProductsPage: useState list
  listLoading, \* AdminProductsPage: useState loading
  listErr,     \* AdminProductsPage: useState err (NoErr = null)
  sub,         \* AddProductModal: the running handleSubmit calls
  srvList,     \* backend: the products added
  last,        \* what the most recent step reported: an alert, a console
               \* diagnostic, a silent refusal; NoEvent when it went through
  tally        \* the add-item requests of two toggleAdd calls in succession

vars == <<mounted, cartId, stored, summary, email, addr, zip, togglingId,
          mutatingId, paying, tog, qty, pay, eff, srvNext, srvCart, last,
          tally, products, detailOpen, detailLoading, detail, cat, det,
          route, adminToken, orderMounted, orders, ordersFrom, orderLoading,
          orderErr, dailyMode, expanded, ord, username, password,
          loginLoading, loginErr, login, form, submitting, modalErr, addOpen,
          list, listLoading, listErr, sub, srvList>>

client == <<cartId, stored, summary, email, addr, zip, togglingId,
            mutatingId, paying>>

\* the admin order page
orderPage == <<orderMounted, orders, ordersFrom, orderLoading, orderErr,
               dailyMode, expanded, ord>>

\* the admin login page
loginPage == <<username, password, loginLoading, loginErr, login>>

\* the admin products page with its add-product modal, and the backend's
\* product list
productsPage == <<form, submitting, modalErr, addOpen, list, listLoading,
                  listErr, sub, srvList>>

\* the admin pages, which share nothing with the cart page
admin == <<route, adminToken, orderPage, loginPage, productsPage>>

\* the cart page and its backend, which no handler of the admin pages touches
cartPage == <<mounted, cartId, stored, summary, email, addr, zip, togglingId,
              mutatingId, paying, tog, qty, pay, eff, srvNext, srvCart,
              products, detailOpen, detailLoading, detail, cat, det>>

\* what the handlers of the order page, and of the login page, leave alone
notOrders == <<cartPage, loginPage, productsPage>>

notLogin == <<cartPage, orderPage, productsPage>>

\* what the handlers of the products page leave alone
notProducts == <<cartPage, adminToken, orderPage, loginPage>>

\* the catalog and the detail modal, and with them the admin pages, which
\* no handler of the cart page touches
shop == <<products, detailOpen, detailLoading, detail, cat, det, admin>>

\* ------------------------------------------------------------ data types
EmptySummary == [items |-> <<>>, totalAmount |-> 0]

Price(p) == p + 1

ItemLine(p, q) ==
  [productId |-> p, unitPrice |-> Price(p), qty |-> q, lineTotal |-> Price(p) * q]

RECURSIVE LinesFrom(_, _)
LinesFrom(cart, p) ==
  IF p \notin DOMAIN cart THEN <<>>
  ELSE IF cart[p] > 0 THEN <<ItemLine(p, cart[p])>> \o LinesFrom(cart, p + 1)
  ELSE LinesFrom(cart, p + 1)

RECURSIVE SumTotals(_)
SumTotals(lines) ==
  IF lines = <<>> THEN 0 ELSE Head(lines).lineTotal + SumTotals(Tail(lines))

\* the backend's answer to GET /carts/{id}/summary
SummaryOf(cart) ==
  [items |-> LinesFrom(cart, 1), totalAmount |-> SumTotals(LinesFrom(cart, 1))]

EmptyCart == [p \in Products |-> 0]

\* what the backend holds for a cart id found in localStorage at page load
RestoredCart == [p \in Products |-> IF p = 1 THEN 1 ELSE 0]

\* --------------------------------------------------------- pure functions
IsSpace(c) == c = " "

IsDigit(c) == c \in {"0", "1", "2", "3", "4", "5", "6", "7", "8", "9"}

RECURSIVE TrimLeft(_)
TrimLeft(s) ==
  IF s # <<>> /\ IsSpace(Head(s)) THEN TrimLeft(Tail(s)) ELSE s

RECURSIVE TrimRight(_)
TrimRight(s) ==
  IF s # <<>> /\ IsSpace(s[Len(s)]) THEN TrimRight(SubSeq(s, 1, Len(s) - 1)) ELSE s

Trim(s) == TrimRight(TrimLeft(s))

\* an email pattern without the dot of the domain
EmailOk_NoDot(s) ==
  \E i \in 1..Len(s) :
    /\ s[i] = "@"
    /\ i > 1 /\ i < Len(s)
    /\ \A k \in 1..Len(s) : ~IsSpace(s[k]) /\ (s[k] = "@" => k = i)

\* /^[^\s@]+@[^\s@]+\.[^\s@]+$/
EmailOk(s) ==
  \E i \in 1..Len(s) :
    /\ s[i] = "@"
    /\ i > 1
    /\ \A k \in 1..Len(s) : ~IsSpace(s[k]) /\ (s[k] = "@" => k = i)
    /\ \E j \in (i + 2)..(Len(s) - 1) : s[j] = "."

\* /^\d{5}$/
ZipOk(s) == Len(s) = 5 /\ \A k \in 1..5 : IsDigit(s[k])

isInCartOf(sum, productId) ==
  \E k \in 1..Len(sum.items) : sum.items[k].productId = productId

isInCart(productId) == isInCartOf(summary, productId)

\* ------------------------------------------------------------- the tasks
\* A running async call: where it is suspended (pc = the request awaited),
\* the values its closure holds, and the state of the awaited request:
\* "sent" until the backend has answered with success, then "ok" with the
\* response body until the continuation runs. A request that fails changes
\* nothing at the backend, so its failure and the continuation are one step.
\* did names the mutation request the call has already seen succeed.
Idle ==
  [pc |-> "idle", productId |-> NULL, id |-> NULL, member |-> FALSE,
   did |-> "none", phase |-> "none", newId |-> NULL, body |-> EmptySummary]

Request(kind, productId, id, member) ==
  [pc |-> kind, productId |-> productId, id |-> id, member |-> member,
   did |-> "none", phase |-> "sent", newId |-> NULL, body |-> EmptySummary]

\* a handler that ends after its mutation request without the summary fetch
Refresh_Skipped(t) == Idle

\* the summary fetch a handler awaits after its mutation request succeeded
Refresh(t) ==
  [pc |-> "summary", productId |-> t.productId, id |-> t.id, member |-> t.member,
   did |-> t.pc, phase |-> "sent", newId |-> NULL, body |-> EmptySummary]

NoEvent == [op |-> "none", productId |-> NULL, result |-> "none"]

Event(op, productId, result) == [op |-> op, productId |-> productId, result |-> result]

\* what a continuation reports of the request that resolved: nothing on
\* success, console.error / console.warn on "bad" and on "err"
Diagnostic(op, productId, o) == IF o = "ok" THEN NoEvent ELSE Event(op, productId, o)

\* the awaited request makes the handler throw: a rejected fetch throws at
\* the await, and ensureCartId throws on a non-success status
Thrown(kind, o) == o = "err" \/ (kind = "create" /\ o = "bad")

\* the requests a handler awaits inside a try block that has a catch
TrySites ==
  {<<"onToggleProduct", "create">>, <<"onToggleProduct", "add">>,
   <<"onToggleProduct", "remove">>, <<"fetchSummary", "summary">>,
   <<"increaseQty", "increase">>, <<"decreaseQty", "decrease">>,
   <<"onPay", "create">>, <<"onPay", "email">>, <<"onPay", "date">>,
   <<"onPay", "customer">>, <<"fetchProducts", "products">>,
   <<"openDetail", "detail">>}

\* a fetchProducts whose await is not in a try block
Caught_ProductsBare(handler, kind) ==
  <<handler, kind>> \in TrySites \ {<<"fetchProducts", "products">>}

\* what the handler throws at this await is caught within the handler
Caught(handler, kind) == <<handler, kind>> \in TrySites

\* what the step reports: an error that leaves the handler uncaught, or what
\* the handler itself reports
Report(handler, kind, productId, o, handled) ==
  IF Thrown(kind, o) /\ ~Caught(handler, kind)
  THEN Event(handler, productId, "uncaught")
  ELSE handled

QtyHandler(kind) == IF kind = "decrease" THEN "decreaseQty" ELSE "increaseQty"

\* ------------------------------------------------------ catalog and images
\* an image reference is a string, <<>> when absent or empty
Http == <<"h", "t", "t", "p">>

ImagesPrefix == <<"/", "i", "m", "a", "g", "e", "s", "/">>

File == <<"a", ".", "j", "p", "g">>

\* raw.startsWith(prefix)
StartsWith(raw, prefix) ==
  Len(raw) >= Len(prefix) /\ SubSeq(raw, 1, Len(prefix)) = prefix

\* a normalisation that prefixes every reference it is given
resolveImage_AlwaysPrefixes(raw) ==
  IF raw = <<>> THEN <<>> ELSE ImagesPrefix \o raw

\* const resolveImage = (raw?: string) => ...
resolveImage(raw) ==
  IF raw = <<>> THEN <<>>
  ELSE IF StartsWith(raw, Http) \/ StartsWith(raw, ImagesPrefix) THEN raw
  ELSE ImagesPrefix \o raw

\* the image references the backend may hold for a product: none, a bare
\* file name, an http and an https URL, a path under /images/, and a URL of
\* another scheme, a path elsewhere, a file name that begins with http
RawImages ==
  {<<>>, File,
   Http \o <<":", "/", "/", "h", "/">> \o File,
   Http \o <<"s", ":", "/", "/", "h", "/">> \o File,
   ImagesPrefix \o File,
   <<"f", "t", "p", ":", "/", "/", "h", "/">> \o File,
   <<"/", "i", "m", "g", "/">> \o File,
   Http \o <<".", "j", "p", "g">>}

\* CoffeeResponseDto and Product, without the fields copied as they are
Dto(coffeeId, raw) == [coffeeId |-> coffeeId, imageUrl |-> raw]

NoDetail == Dto(NULL, <<>>)

\* the bodies GET /products can answer with: a list of up to MaxProduct
\* products, each with any image reference
CatalogBodies ==
  UNION {{[p \in 1..n |-> Dto(p, f[p])] : f \in [1..n -> RawImages]} : n \in 0..MaxProduct}

\* (data.data ?? []).map((d) => ({ id: d.coffeeId, ..., imageUrl: resolveImage(d.imageUrl) }))
ProductsOf(body) ==
  [k \in 1..Len(body) |-> [id |-> body[k].coffeeId, imageUrl |-> resolveImage(body[k].imageUrl)]]

\* a running fetchProducts or openDetail call: the request awaited, the
\* product asked for, and once answered with success the body of the answer
NoFetch == [pc |-> "idle", coffeeId |-> NULL, phase |-> "none", body |-> <<>>]

Fetch(kind, coffeeId) ==
  [pc |-> kind, coffeeId |-> coffeeId, phase |-> "sent", body |-> <<>>]

\* an ensureCartId without its fast path
ensureCartId_AlwaysCreates(productId, member, request) ==
  Request("create", productId, NULL, member)

\* ensureCartId as its caller sees it: with an id held the caller goes on to
\* its own request; without one the creation request is awaited first
ensureCartId(productId, member, request) ==
  IF cartId # NULL THEN request ELSE Request("create", productId, NULL, member)

\* an add branch that posts the item whether or not it is in the summary
AddOrRefresh_AlwaysAdds(productId, id, member) ==
  Request("add", productId, id, member)

\* the add branch of onToggleProduct once the cart id is known
AddOrRefresh(productId, id, member) ==
  IF ~member THEN Request("add", productId, id, member)
  ELSE Request("summary", productId, id, member)

\* a fetchSummary that blanks the summary when the request fails
fetchSummary_Blanks(t, o) == IF o = "ok" THEN t.body ELSE EmptySummary

\* a fetchSummary that never calls setSummary
fetchSummary_Dropped(t, o) == summary

\* the summary state once the fetchSummary awaited by task t resolved with o
fetchSummary(t, o) == IF o = "ok" THEN t.body ELSE summary

\* ---------------------------------------------------------------- counting
\* calls: 0 = not counting, 1 = a toggleAdd call for a product in the summary
\* has started, 2 = the next toggleAdd call for that product has started too;
\* adds: the add-item requests those calls have issued.
NoTally == [calls |-> 0, productId |-> NULL, adds |-> 0]

StartsToggleAdd == tog.pc = "idle" /\ tog'.pc \in {"create", "add", "summary"}

StartsToggleRemove == tog.pc = "idle" /\ tog'.pc = "remove"

IssuesAdd == tog'.pc = "add" /\ tog'.phase = "sent" /\ tog' # tog

AddsNow == IF IssuesAdd THEN 1 ELSE 0

Tallied ==
  tally' =
    IF StartsToggleAdd
    THEN IF tally.calls = 1 /\ tally.productId = tog'.productId
         THEN [tally EXCEPT !.calls = 2, !.adds = @ + AddsNow]
         ELSE IF isInCart(tog'.productId)
         THEN [calls |-> 1, productId |-> tog'.productId, adds |-> AddsNow]
         ELSE NoTally
    ELSE IF StartsToggleRemove THEN NoTally
    ELSE IF tally.calls > 0 THEN [tally EXCEPT !.adds = @ + AddsNow]
    ELSE tally

Untallied == UNCHANGED tally

\* a [cartId] effect that fetches nothing
CartIdEffect_Never(newCartId) == eff

\* the [cartId] effect: a changed, non-null cartId starts a fetchSummary
CartIdEffect(newCartId) ==
  IF newCartId # NULL /\ newCartId # cartId
  THEN [eff EXCEPT ![newCartId] = Request("summary", NULL, newCartId, FALSE)]
  ELSE eff

\* ------------------------------------------------------- the admin pages
\* no message shown, no token stored
NoErr == "none"

NoToken == "none"

\* backend: the ids of all orders, and of those of the daily batch
AllOrders == <<1, 2>>

DailyOrders == <<2>>

\* a response body as the order page reads it: json?.data ?? json, an array
\* or something else
ListBody(items) == [isArray |-> TRUE, list |-> items]

OtherBody == [isArray |-> FALSE, list |-> <<>>]

\* Array.isArray(data) ? data : []
OrdersOf(body) == IF body.isArray THEN body.list ELSE <<>>

NoOrderFetch == [pc |-> "idle", phase |-> "none", body |-> OtherBody]

OrderFetch(kind) == [pc |-> kind, phase |-> "sent", body |-> OtherBody]

\* the body of the login response as onSubmit reads it: whether it parses
\* as JSON, its resultCode and its token (data.token ?? token)
LoginResponse(httpOk, json, resultCode, token) ==
  [httpOk |-> httpOk, json |-> json,
   resultCode |-> IF json THEN resultCode ELSE <<>>,
   token |-> IF json THEN token ELSE NoToken]

NoLogin == [pc |-> "idle", phase |-> "none", resp |-> LoginResponse(FALSE, FALSE, <<>>, NoToken)]

\* the fields of the add-product form as the modal's open effect sets them
NoFile == "none"

BlankForm == [name |-> <<>>, price |-> <<>>, contents |-> <<>>, stock |-> <<>>,
              file |-> NoFile]

NoSubmit == [pc |-> "idle", phase |-> "none", name |-> <<>>, imageUrl |-> <<>>]

\* the admin pages before anything has run, the browser showing the page r
AdminStart(r) ==
  /\ route = r
  /\ adminToken = NoToken
  /\ orderMounted = FALSE
  /\ orders = <<>>
  /\ ordersFrom = "none"
  /\ orderLoading = TRUE
  /\ orderErr = NoErr
  /\ dailyMode = FALSE
  /\ expanded = {}
  /\ ord = [s \in OrderSlots |-> NoOrderFetch]
  /\ username = <<>>
  /\ password = <<>>
  /\ loginLoading = FALSE
  /\ loginErr = NoErr
  /\ login = NoLogin
  /\ form = BlankForm
  /\ submitting = FALSE
  /\ modalErr = NoErr
  /\ addOpen = FALSE
  /\ list = <<>>
  /\ listLoading = TRUE
  /\ listErr = NoErr
  /\ sub = [s \in SubmitSlots |-> NoSubmit]
  /\ srvList = <<>>

\* ------------------------------------------------------------- the state
EmailValues == {<<>>, <<"a", "@", "b", ".", "c">>}
AddrValues == {<<>>, <<"x">>}
ZipValues == {<<>>, <<"1", "2", "3", "4", "5">>}

Init ==
  /\ mounted = FALSE
  /\ cartId = NULL
  /\ stored \in {NULL, 1}
  /\ summary = EmptySummary
  /\ email = <<>>
  /\ addr = <<>>
  /\ zip = <<>>
  /\ togglingId = NULL
  /\ mutatingId = NULL
  /\ paying = FALSE
  /\ tog = Idle
  /\ qty = Idle
  /\ pay = [i \in PaySlots |-> Idle]
  /\ eff = [c \in CartIds |-> Idle]
  /\ srvNext = IF stored = NULL THEN 1 ELSE 2
  /\ srvCart = [c \in CartIds |-> IF c < srvNext THEN RestoredCart ELSE EmptyCart]
  /\ last = NoEvent
  /\ tally = NoTally
  /\ products = <<>>
  /\ detailOpen = FALSE
  /\ detailLoading = FALSE
  /\ detail = NoDetail
  /\ cat = NoFetch
  /\ det = [i \in DetailSlots |-> NoFetch]
  /\ AdminStart("login")

\* ------------------------------------------------------------ the backend
Outcomes == {"ok", "bad", "err"}

Failures == {"bad", "err"}

CartExists(id) == id # NULL /\ id < srvNext

\* when the backend can answer the request of task t with success
CanSucceed(t) ==
  CASE t.pc = "create" -> srvNext \in DOMAIN srvCart
    [] t.pc = "increase" -> CartExists(t.id) /\ srvCart[t.id][t.productId] >= 1
                            /\ srvCart[t.id][t.productId] < MaxQty
    [] t.pc = "decrease" -> CartExists(t.id) /\ srvCart[t.id][t.productId] >= 1
    [] OTHER -> CartExists(t.id)

\* the cart contents after the request of task t succeeded
CartAfter(t) ==
  LET q == srvCart[t.id][t.productId] IN
  CASE t.pc = "add" -> [srvCart EXCEPT ![t.id][t.productId] = IF q = 0 THEN 1 ELSE q]
    [] t.pc = "remove" -> [srvCart EXCEPT ![t.id][t.productId] = 0]
    [] t.pc = "increase" -> [srvCart EXCEPT ![t.id][t.productId] = q + 1]
    [] t.pc = "decrease" -> [srvCart EXCEPT ![t.id][t.productId] = q - 1]
    [] OTHER -> srvCart

\* the task once its request is answered with success
Answered(t) ==
  [t EXCEPT !.phase = "ok",
            !.newId = IF t.pc = "create" THEN srvNext ELSE NULL,
            !.body = IF t.pc = "summary" THEN SummaryOf(srvCart[t.id]) ELSE EmptySummary]

\* the backend handles the request of task t and answers with success
Backend(t) ==
  /\ t.phase = "sent"
  /\ CanSucceed(t)
  /\ srvNext' = IF t.pc = "create" THEN srvNext + 1 ELSE srvNext
  /\ srvCart' = CartAfter(t)
  /\ last' = NoEvent
  /\ UNCHANGED <<mounted, client, shop>>

ServeToggle == Backend(tog) /\ tog' = Answered(tog) /\ UNCHANGED <<qty, pay, eff>>

ServeQty == Backend(qty) /\ qty' = Answered(qty) /\ UNCHANGED <<tog, pay, eff>>

\* of onPay's requests the cart creation returns the id the handler reads,
\* and the customer request is the one whose success ends the checkout
ServePay(i) ==
  /\ pay[i].pc \in {"create", "customer"}
  /\ Backend(pay[i])
  /\ pay' = [pay EXCEPT ![i] = Answered(pay[i])]
  /\ UNCHANGED <<tog, qty, eff>>

ServeEffect(c) ==
  /\ Backend(eff[c])
  /\ eff' = [eff EXCEPT ![c] = Answered(eff[c])]
  /\ UNCHANGED <<tog, qty, pay>>

\* a handler that takes every response for a success
Failed_Unchecked(o) == FALSE

\* a handler that does not test res.ok: only a rejected fetch is a failure
Failed_OnlyRejected(o) == o = "err"

\* the handler sees the request fail: !res.ok, or the fetch rejected
Failed(o) == o \in Failures

\* the awaited request of task t resolves with outcome o
Resolves(t, o) == IF o = "ok" THEN t.phase = "ok" ELSE t.phase = "sent"

\* ------------------------------------------------------- mount and fields
\* a mount effect that discards the persisted cart id
Mount_Discards ==
  /\ ~mounted
  /\ mounted' = TRUE
  /\ cat' = Fetch("products", NULL)
  /\ cartId' = NULL
  /\ stored' = NULL
  /\ last' = NoEvent
  /\ UNCHANGED <<summary, email, addr, zip, togglingId, mutatingId,
                 paying, tog, qty, pay, eff, srvNext, srvCart>>
  /\ UNCHANGED <<products, detailOpen, detailLoading, detail, det>>
  /\ UNCHANGED admin

\* the mount effect: start fetchProducts and restore a persisted cart id; the
\* [cartId] effect then fetches its summary
Mount ==
  /\ ~mounted
  /\ mounted' = TRUE
  /\ cat' = Fetch("products", NULL)
  /\ cartId' = stored
  /\ eff' = CartIdEffect(stored)
  /\ last' = NoEvent
  /\ UNCHANGED <<stored, summary, email, addr, zip, togglingId, mutatingId,
                 paying, tog, qty, pay, srvNext, srvCart>>
  /\ UNCHANGED <<products, detailOpen, detailLoading, detail, det>>
  /\ UNCHANGED admin

Typing ==
  /\ mounted
  /\ last' = NoEvent
  /\ UNCHANGED <<mounted, cartId, stored, summary, togglingId, mutatingId,
                 paying, tog, qty, pay, eff, srvNext, srvCart, shop>>

SetEmail(v) == Typing /\ email' = v /\ UNCHANGED <<addr, zip>>

SetAddr(v) == Typing /\ addr' = v /\ UNCHANGED <<email, zip>>

SetZip(v) == Typing /\ zip' = v /\ UNCHANGED <<email, addr>>

\* the summary fetch of the [cartId] effect resolves
EffectResume(c) ==
  \E o \in Outcomes :
    /\ Resolves(eff[c], o)
    /\ summary' = fetchSummary(eff[c], o)
    /\ eff' = [eff EXCEPT ![c] = Idle]
    /\ last' = Report("fetchSummary", "summary", NULL, o, Diagnostic("summary", NULL, o))
    /\ UNCHANGED <<mounted, cartId, stored, email, addr, zip, togglingId,
                   mutatingId, paying, tog, qty, pay, srvNext, srvCart, shop>>

\* ------------------------------------------------ fetchProducts, openDetail
\* the backend answers GET /products with one of the given lists of products
ServeProducts(bodies) ==
  \E body \in bodies :
    /\ cat.pc = "products" /\ cat.phase = "sent"
    /\ cat' = [cat EXCEPT !.phase = "ok", !.body = body]
    /\ last' = NoEvent
    /\ UNCHANGED <<mounted, client, tog, qty, pay, eff, srvNext, srvCart>>
    /\ UNCHANGED <<products, detailOpen, detailLoading, detail, det>>
    /\ UNCHANGED admin
  /\ UNCHANGED admin

\* a fetchProducts that asks again when its request failed
AfterProducts_Retries(o) == IF o = "ok" THEN NoFetch ELSE Fetch("products", NULL)

\* fetchProducts ends when its request has resolved, whatever the outcome
AfterProducts(o) == NoFetch

\* a fetchProducts that stores the image references as they came
fetchProducts_Raw(t, o) ==
  IF Failed(o) THEN products
  ELSE [k \in 1..Len(t.body) |->
          [id |-> t.body[k].coffeeId, imageUrl |-> t.body[k].imageUrl]]

\* the products state once the request of fetchProducts resolved with o
fetchProducts(t, o) == IF Failed(o) THEN products ELSE ProductsOf(t.body)

\* the continuation of fetchProducts
ProductsResume ==
  \E o \in Outcomes :
    /\ cat.pc = "products"
    /\ Resolves(cat, o)
    /\ products' = fetchProducts(cat, o)
    /\ cat' = AfterProducts(o)
    /\ last' = Report("fetchProducts", "products", NULL, o, Diagnostic("products", NULL, o))
    /\ UNCHANGED <<mounted, client, tog, qty, pay, eff, srvNext, srvCart>>
    /\ UNCHANGED <<detailOpen, detailLoading, detail, det>>
    /\ UNCHANGED admin

FreeDetailSlot ==
  CHOOSE i \in DetailSlots : det[i].pc = "idle" /\ \A j \in 1..(i - 1) : det[j].pc # "idle"

\* the handler up to its await
openDetail(coffeeId) ==
  /\ mounted
  /\ \E i \in DetailSlots : det[i].pc = "idle"
  /\ detailOpen' = TRUE
  /\ detailLoading' = TRUE
  /\ detail' = NoDetail
  /\ det' = [det EXCEPT ![FreeDetailSlot] = Fetch("detail", coffeeId)]
  /\ last' = NoEvent
  /\ UNCHANGED <<mounted, client, tog, qty, pay, eff, srvNext, srvCart>>
  /\ UNCHANGED <<products, cat>>
  /\ UNCHANGED admin

\* the backend answers GET /coffee/{id} with the product, its image
\* reference one of the given
ServeDetail(i, raws) ==
  \E raw \in raws :
    /\ det[i].pc = "detail" /\ det[i].phase = "sent"
    /\ det' = [det EXCEPT ![i] = [det[i] EXCEPT !.phase = "ok",
                                                 !.body = Dto(det[i].coffeeId, raw)]]
    /\ last' = NoEvent
    /\ UNCHANGED <<mounted, client, tog, qty, pay, eff, srvNext, srvCart>>
    /\ UNCHANGED <<products, detailOpen, detailLoading, detail, cat>>
    /\ UNCHANGED admin

\* the continuation of openDetail, with its finally block
DetailResume(i) ==
  \E o \in Outcomes :
    /\ det[i].pc = "detail"
    /\ Resolves(det[i], o)
    /\ detail' = IF Failed(o) THEN NoDetail
                 ELSE Dto(det[i].body.coffeeId, resolveImage(det[i].body.imageUrl))
    /\ detailLoading' = FALSE
    /\ det' = [det EXCEPT ![i] = NoFetch]
    /\ last' = Report("openDetail", "detail", det[i].coffeeId, o,
                      Diagnostic("detail", det[i].coffeeId, o))
    /\ UNCHANGED <<mounted, client, tog, qty, pay, eff, srvNext, srvCart>>
    /\ UNCHANGED <<products, detailOpen, cat>>
    /\ UNCHANGED admin

\* DetailModal: the src of the image, resolveImage(data.imageUrl) of the
\* detail the page holds
DetailSrc == resolveImage(detail.imageUrl)

\* onClose of the detail modal
closeDetail ==
  /\ detailOpen
  /\ detailOpen' = FALSE
  /\ last' = NoEvent
  /\ UNCHANGED <<mounted, client, tog, qty, pay, eff, srvNext, srvCart>>
  /\ UNCHANGED <<products, detailLoading, detail, cat, det>>
  /\ UNCHANGED admin

\* --------------------------------------------------------- onToggleProduct
\* the single-flight test of onToggleProduct
ToggleBusy == togglingId # NULL

\* a quantity handler that does not test for a cart id
QtyRefused_NoCartTest == mutatingId # NULL

\* a quantity handler that refuses when no displayed line has more than one
QtyRefused_Bounded ==
  \/ cartId = NULL \/ mutatingId # NULL
  \/ \A k \in 1..Len(summary.items) : summary.items[k].qty <= 1

\* the test of increaseQty / decreaseQty: no cart, or a quantity change running
QtyRefused == cartId = NULL \/ mutatingId # NULL

\* a remove branch that does not look at the summary
RemoveRefused_NoMembership(productId) == cartId = NULL

\* the test of the remove branch: nothing to remove
RemoveRefused(productId) == cartId = NULL \/ ~isInCart(productId)

\* a remove branch that does not look at the answer of window.confirm
Declined_Ignored(confirmed) == FALSE

\* the confirmation gate of the remove branch: if (!ok) return
Declined(confirmed) == ~confirmed

ToggleOp(nextChecked) == IF nextChecked THEN "toggleAdd" ELSE "toggleRemove"

\* the handler up to its first await; confirmed is the answer window.confirm
\* would give
onToggleProduct(productId, nextChecked, confirmed) ==
  /\ mounted
  /\ UNCHANGED <<mounted, cartId, stored, summary, email, addr, zip,
                 mutatingId, paying, qty, pay, eff, srvNext, srvCart, shop>>
  /\ IF ToggleBusy
     THEN /\ last' = Event(ToggleOp(nextChecked), productId, "rejected")
          /\ UNCHANGED <<togglingId, tog>>
     ELSE IF nextChecked
     THEN /\ togglingId' = productId
          /\ last' = NoEvent
          /\ tog' = ensureCartId(productId, isInCart(productId),
                                  AddOrRefresh(productId, cartId, isInCart(productId)))
     ELSE IF RemoveRefused(productId)
     THEN /\ last' = Event("toggleRemove", productId, "noop")
          /\ UNCHANGED <<togglingId, tog>>
     ELSE \* window.confirm is shown; last records the answer given
          /\ last' = Event("toggleRemove", productId,
                           IF confirmed THEN "confirmed" ELSE "declined")
          /\ IF Declined(confirmed)
             THEN UNCHANGED <<togglingId, tog>>
             ELSE /\ togglingId' = productId
                  /\ tog' = Request("remove", productId, cartId, TRUE)

\* an onToggleProduct without its finally block
ToggleFinally_Missing == tog' = Idle /\ UNCHANGED togglingId

\* the finally block of onToggleProduct
ToggleFinally == togglingId' = NULL /\ tog' = Idle

\* the continuation of onToggleProduct after the awaited request resolved
ToggleResume ==
  \E o \in Outcomes :
    /\ Resolves(tog, o)
    /\ last' = Report(IF tog.pc = "summary" THEN "fetchSummary" ELSE "onToggleProduct",
                      tog.pc, tog.productId, o, Diagnostic(tog.pc, tog.productId, o))
    /\ UNCHANGED <<mounted, email, addr, zip, mutatingId, paying, qty, pay,
                   srvNext, srvCart, shop>>
    /\ IF Failed(o)
       THEN \* non-success status: return (or throw, in ensureCartId); rejected
            \* fetch: catch; fetchSummary swallows both; then finally
            /\ ToggleFinally
            /\ UNCHANGED <<cartId, stored, summary, eff>>
       ELSE CASE tog.pc = "create" ->
                 /\ stored' = tog.newId
                 /\ cartId' = tog.newId
                 /\ eff' = CartIdEffect(tog.newId)
                 /\ tog' = AddOrRefresh(tog.productId, tog.newId, tog.member)
                 /\ UNCHANGED <<summary, togglingId>>
              [] tog.pc \in {"add", "remove"} ->
                 /\ tog' = Refresh(tog)
                 /\ UNCHANGED <<cartId, stored, summary, togglingId, eff>>
              [] tog.pc = "summary" ->
                 /\ summary' = fetchSummary(tog, o)
                 /\ ToggleFinally
                 /\ UNCHANGED <<cartId, stored, eff>>

\* ------------------------------------------------ increaseQty, decreaseQty
\* the handler up to its first await; kind is "increase" or "decrease"
ChangeQty(kind, productId) ==
  /\ mounted
  /\ UNCHANGED <<mounted, cartId, stored, summary, email, addr, zip,
                 togglingId, paying, tog, pay, eff, srvNext, srvCart, shop>>
  /\ IF QtyRefused
     THEN /\ last' = Event(kind, productId, "rejected")
          /\ UNCHANGED <<mutatingId, qty>>
     ELSE /\ mutatingId' = productId
          /\ qty' = Request(kind, productId, cartId, FALSE)
          /\ last' = NoEvent

increaseQty(productId) == ChangeQty("increase", productId)

decreaseQty(productId) == ChangeQty("decrease", productId)

\* the finally block of increaseQty / decreaseQty
QtyFinally == mutatingId' = NULL /\ qty' = Idle

\* the continuation of increaseQty / decreaseQty
QtyResume ==
  \E o \in Outcomes :
    /\ Resolves(qty, o)
    /\ last' = Report(IF qty.pc = "summary" THEN "fetchSummary" ELSE QtyHandler(qty.pc),
                      qty.pc, qty.productId, o, Diagnostic(qty.pc, qty.productId, o))
    /\ UNCHANGED <<mounted, cartId, stored, email, addr, zip, togglingId,
                   paying, tog, pay, eff, srvNext, srvCart, shop>>
    /\ IF ~Failed(o) /\ qty.pc \in {"increase", "decrease"}
       THEN /\ qty' = Refresh(qty)
            /\ UNCHANGED <<summary, mutatingId>>
       ELSE /\ summary' = fetchSummary(qty, o)
            /\ QtyFinally

\* -------------------------------------------------------------------- onPay
\* a reset that removes the persisted id and keeps the id in memory
resetAfterPay_KeepsId ==
  /\ stored' = NULL
  /\ cartId' = cartId
  /\ summary' = EmptySummary
  /\ email' = <<>>
  /\ addr' = <<>>
  /\ zip' = <<>>

\* resetAfterPay: forget the cart and blank the summary and the form
resetAfterPay ==
  /\ stored' = NULL
  /\ cartId' = NULL
  /\ summary' = EmptySummary
  /\ email' = <<>>
  /\ addr' = <<>>
  /\ zip' = <<>>

\* a validation that tests the fields before the cart
PayRefusal_FieldsFirst ==
  IF ~EmailOk(Trim(email)) THEN "alert_email"
  ELSE IF Trim(addr) = <<>> THEN "alert_address"
  ELSE IF ~ZipOk(Trim(zip)) THEN "alert_zip"
  ELSE IF Len(summary.items) = 0 THEN "alert_empty_cart"
  ELSE "none"

\* the first validation that fails, in the order the handler tests them
PayRefusal ==
  IF Len(summary.items) = 0 THEN "alert_empty_cart"
  ELSE IF ~EmailOk(Trim(email)) THEN "alert_email"
  ELSE IF Trim(addr) = <<>> THEN "alert_address"
  ELSE IF ~ZipOk(Trim(zip)) THEN "alert_zip"
  ELSE "none"

FreePaySlot ==
  CHOOSE i \in PaySlots : pay[i].pc = "idle" /\ \A j \in 1..(i - 1) : pay[j].pc # "idle"

\* the handler up to its first request
onPay ==
  /\ mounted
  /\ UNCHANGED <<mounted, cartId, stored, summary, email, addr, zip,
                 togglingId, mutatingId, tog, qty, eff, srvNext, srvCart, shop>>
  /\ IF paying
     THEN /\ last' = Event("pay", NULL, "rejected")
          /\ UNCHANGED <<paying, pay>>
     ELSE IF PayRefusal # "none"
     THEN /\ last' = Event("pay", NULL, PayRefusal)
          /\ UNCHANGED <<paying, pay>>
     ELSE /\ \E i \in PaySlots : pay[i].pc = "idle"
          /\ last' = NoEvent
          /\ pay' = [pay EXCEPT ![FreePaySlot] =
                        ensureCartId(NULL, FALSE, Request("email", NULL, cartId, FALSE))]
          /\ paying' = (cartId # NULL)

\* the continuation of onPay call i after its cart creation resolved
PayCreated(i) ==
  \E o \in Outcomes :
    /\ pay[i].pc = "create"
    /\ Resolves(pay[i], o)
    /\ UNCHANGED <<mounted, summary, email, addr, zip, togglingId, mutatingId,
                   tog, qty, srvNext, srvCart, shop>>
    /\ IF ~Failed(o)
       THEN /\ stored' = pay[i].newId
            /\ cartId' = pay[i].newId
            /\ eff' = CartIdEffect(pay[i].newId)
            /\ paying' = TRUE
            /\ pay' = [pay EXCEPT ![i] =
                          [Request("email", NULL, pay[i].newId, FALSE)
                             EXCEPT !.did = "create"]]
            /\ last' = NoEvent
       ELSE /\ pay' = [pay EXCEPT ![i] = Idle]
            /\ last' = Report("onPay", "create", NULL, o,
                              Event("pay", NULL, "alert_create_failed"))
            /\ UNCHANGED <<cartId, stored, paying, eff>>

\* a checkout that does not test the outcome of the customer request
Fatal_Never(t, o) == FALSE

\* a checkout in which a failed email or date request aborts as well
Fatal_Any(t, o) == Failed(o)

\* only the customer request is fatal to the checkout: the failures of the
\* email and of the date request are caught and logged
Fatal(t, o) == t.pc = "customer" /\ Failed(o)

\* a checkout that goes from the email request straight to the customer request
AfterStep_SkipsDate(t) == [Request("customer", NULL, t.id, FALSE) EXCEPT !.did = t.did]

\* the request onPay awaits after its email or date request resolved
AfterStep(t) ==
  [Request(IF t.pc = "email" THEN "date" ELSE "customer", NULL, t.id, FALSE)
     EXCEPT !.did = t.did]

\* an onPay without its finally block
PayFinally_Missing == paying' = paying

\* the finally block of onPay
PayFinally == paying' = FALSE

\* the continuation of onPay call i after its email, date or customer request
\* resolved; the email and the date request resolve in one step with the
\* backend's answer, which the handler only logs
PayResume(i) ==
  \E o \in Outcomes :
    /\ pay[i].pc \in {"email", "date", "customer"}
    /\ IF pay[i].pc = "customer" THEN Resolves(pay[i], o)
       ELSE pay[i].phase = "sent" /\ (o = "ok" => CanSucceed(pay[i]))
    /\ UNCHANGED <<mounted, togglingId, mutatingId, tog, qty, eff, srvNext, srvCart,
                   shop>>
    /\ IF Fatal(pay[i], o)
       THEN \* alert, return or catch, then finally
            /\ PayFinally
            /\ pay' = [pay EXCEPT ![i] = Idle]
            /\ last' = Report("onPay", pay[i].pc, NULL, o,
                              Event("pay", NULL,
                                    IF o = "bad" THEN "alert_customer_failed"
                                    ELSE "alert_pay_error"))
            /\ UNCHANGED <<cartId, stored, summary, email, addr, zip>>
       ELSE IF pay[i].pc = "customer"
       THEN /\ resetAfterPay
            /\ PayFinally
            /\ pay' = [pay EXCEPT ![i] = Idle]
            /\ last' = NoEvent
       ELSE /\ pay' = [pay EXCEPT ![i] = AfterStep(pay[i])]
            /\ last' = Report("onPay", pay[i].pc, NULL, o, Diagnostic(pay[i].pc, NULL, o))
            /\ UNCHANGED <<cartId, stored, summary, email, addr, zip, paying>>

\* ------------------------------------------------------- AdminOrderPage
\* the mount effect of the order page: fetchOrders()
FreeOrderSlot ==
  CHOOSE s \in OrderSlots : ord[s].pc = "idle" /\ \A j \in 1..(s - 1) : ord[j].pc # "idle"

\* fetchOrders / fetchDaily up to the await: setLoading(true), setErr(null)
\* and the GET; kind is "all" or "daily"
StartOrderFetch(kind) ==
  /\ \E s \in OrderSlots : ord[s].pc = "idle"
  /\ orderLoading' = TRUE
  /\ orderErr' = NoErr
  /\ ord' = [ord EXCEPT ![FreeOrderSlot] = OrderFetch(kind)]

fetchOrders == StartOrderFetch("all")

fetchDaily == StartOrderFetch("daily")

OrderMount ==
  /\ route = "order" /\ ~orderMounted
  /\ orderMounted' = TRUE
  /\ fetchOrders
  /\ last' = NoEvent
  /\ UNCHANGED <<route, adminToken, orders, ordersFrom, dailyMode, expanded>>
  /\ UNCHANGED notOrders

\* refresh: the request of the current mode
RefreshKind == IF dailyMode THEN "daily" ELSE "all"

refresh ==
  /\ route = "order" /\ orderMounted
  /\ StartOrderFetch(RefreshKind)
  /\ last' = NoEvent
  /\ UNCHANGED <<route, adminToken, orderMounted, orders, ordersFrom, dailyMode,
                 expanded>>
  /\ UNCHANGED notOrders

\* switchToDaily (daily = TRUE) and switchToAll (daily = FALSE): nothing when
\* the mode is already the one asked for
SwitchMode(daily) ==
  /\ route = "order" /\ orderMounted
  /\ UNCHANGED <<route, adminToken, orderMounted, orders, ordersFrom>>
  /\ UNCHANGED notOrders
  /\ IF dailyMode = daily
     THEN /\ last' = Event(IF daily THEN "switchToDaily" ELSE "switchToAll", NULL, "noop")
          /\ UNCHANGED <<orderLoading, orderErr, dailyMode, expanded, ord>>
     ELSE /\ expanded' = {}
          /\ dailyMode' = daily
          /\ StartOrderFetch(IF daily THEN "daily" ELSE "all")
          /\ last' = NoEvent

switchToDaily == SwitchMode(TRUE)

switchToAll == SwitchMode(FALSE)

\* the backend answers the GET of call s with success; malformed says
\* whether the body is something else than the list asked for
ServeOrders(s, malformed) ==
  /\ ord[s].phase = "sent"
  /\ ord' = [ord EXCEPT ![s] =
               [@ EXCEPT !.phase = "ok",
                         !.body = IF malformed THEN OtherBody
                                  ELSE ListBody(IF ord[s].pc = "daily" THEN DailyOrders
                                                ELSE AllOrders)]]
  /\ last' = NoEvent
  /\ UNCHANGED <<route, adminToken, orderMounted, orders, ordersFrom, orderLoading,
                 orderErr, dailyMode, expanded>>
  /\ UNCHANGED notOrders

\* how a request of the order page can end: success, 401 or 403, another
\* non-success status, a rejected fetch
OrderOutcomes == {"ok", "denied", "bad", "err"}

\* the continuation of fetchOrders / fetchDaily call s; once the page has
\* been left its state setters do nothing
OrderResume(s) ==
  \E o \in OrderOutcomes :
    /\ ord[s].pc # "idle"
    /\ IF o = "ok" THEN ord[s].phase = "ok" ELSE ord[s].phase = "sent"
    /\ ord' = [ord EXCEPT ![s] = NoOrderFetch]
    /\ UNCHANGED <<adminToken, orderMounted, dailyMode, expanded>>
    /\ UNCHANGED notOrders
    /\ IF route # "order"
       THEN /\ last' = NoEvent
            /\ UNCHANGED <<route, orders, ordersFrom, orderLoading, orderErr>>
       ELSE /\ orderLoading' = FALSE
            /\ route' = IF o = "denied" THEN "login" ELSE route
            /\ orders' = IF o = "ok" THEN OrdersOf(ord[s].body) ELSE orders
            /\ ordersFrom' = IF o = "ok" THEN ord[s].pc ELSE ordersFrom
            /\ orderErr' = IF o = "bad" THEN "failed_" \o ord[s].pc
                           ELSE IF o = "err" THEN "network"
                           ELSE orderErr
            /\ last' = IF o \in {"bad", "err"} THEN Event(ord[s].pc, NULL, o) ELSE NoEvent

logout ==
  /\ route = "order" /\ orderMounted
  /\ adminToken' = NoToken
  /\ route' = "login"
  /\ last' = NoEvent
  /\ UNCHANGED orderPage
  /\ UNCHANGED notOrders

toggleOne(orderId) ==
  /\ route = "order" /\ orderMounted
  /\ expanded' = IF orderId \in expanded THEN expanded \ {orderId}
                 ELSE expanded \cup {orderId}
  /\ last' = NoEvent
  /\ UNCHANGED <<route, adminToken, orderMounted, orders, ordersFrom, orderLoading,
                 orderErr, dailyMode, ord>>
  /\ UNCHANGED notOrders

\* ------------------------------------------------------- AdminLoginPage
Usernames == {<<>>, <<" ">>, <<"a">>, <<" ", "a">>}

Passwords == {<<>>, <<"p">>}

SetUsername(v) ==
  /\ route = "login"
  /\ username' = v
  /\ last' = NoEvent
  /\ UNCHANGED <<route, adminToken, password, loginLoading, loginErr, login>>
  /\ UNCHANGED notLogin

SetPassword(v) ==
  /\ route = "login"
  /\ password' = v
  /\ last' = NoEvent
  /\ UNCHANGED <<route, adminToken, username, loginLoading, loginErr, login>>
  /\ UNCHANGED notLogin

\* a test that does not trim the username
LoginRefused_NoTrim == username = <<>> \/ password = <<>>

\* if (!username.trim() || !password)
LoginRefused == Trim(username) = <<>> \/ password = <<>>

\* the submit button is disabled while loading
SubmitEnabled == ~loginLoading

\* onSubmit up to the await
onSubmit ==
  /\ route = "login"
  /\ UNCHANGED <<route, adminToken, username, password>>
  /\ UNCHANGED notLogin
  /\ IF LoginRefused
     THEN /\ loginErr' = "missing"
          /\ last' = Event("login", NULL, "missing")
          /\ UNCHANGED <<loginLoading, login>>
     ELSE /\ loginErr' = NoErr
          /\ loginLoading' = TRUE
          /\ login' = [NoLogin EXCEPT !.pc = "post", !.phase = "sent"]
          /\ last' = NoEvent

ResultCodes == {<<>>, <<"2", "0", "0", "-", "1">>, <<"4", "0", "1", "-", "1">>}

\* the backend answers POST /admin/login
ServeLogin ==
  \E httpOk \in BOOLEAN, json \in BOOLEAN, resultCode \in ResultCodes,
     token \in {NoToken, "token"} :
    /\ login.pc = "post" /\ login.phase = "sent"
    /\ login' = [login EXCEPT !.phase = "ok",
                              !.resp = LoginResponse(httpOk, json, resultCode, token)]
    /\ last' = NoEvent
    /\ UNCHANGED <<route, adminToken, username, password, loginLoading, loginErr>>
    /\ UNCHANGED notLogin

\* let ok = res.ok; if (resultCode?.startsWith?.('200')) ok = true
LoginOk(resp) ==
  resp.httpOk \/ (resp.json /\ StartsWith(resp.resultCode, <<"2", "0", "0">>))

\* onSubmit after the await: the response read, or the fetch rejected
LoginResume ==
  \E o \in {"ok", "err"} :
    /\ login.pc = "post"
    /\ Resolves(login, o)
    /\ login' = NoLogin
    /\ loginLoading' = FALSE
    /\ UNCHANGED <<username, password>>
    /\ UNCHANGED notLogin
    /\ IF o = "err"
       THEN /\ loginErr' = "network"
            /\ last' = Event("login", NULL, "err")
            /\ UNCHANGED <<route, adminToken>>
       ELSE IF ~LoginOk(login.resp)
       THEN /\ loginErr' = "failed"
            /\ last' = Event("login", NULL, "failed")
            /\ UNCHANGED <<route, adminToken>>
       ELSE /\ adminToken' = IF login.resp.token # NoToken THEN login.resp.token
                             ELSE adminToken
            /\ route' = "order"
            /\ last' = NoEvent
            /\ UNCHANGED loginErr

\* ------------------------------------------------------ AddProductModal
\* e.target.value.replace(/[^\d]/g, '')
RECURSIVE OnlyDigits(_)
OnlyDigits(s) ==
  IF s = <<>> THEN <<>>
  ELSE IF IsDigit(Head(s)) THEN <<Head(s)>> \o OnlyDigits(Tail(s))
  ELSE OnlyDigits(Tail(s))

\* the onChange handlers of the form: the price and the stock keep digits only
SetField(f, v) ==
  /\ route = "products" /\ addOpen
  /\ form' = [form EXCEPT ![f] = IF f \in {"price", "stock"} THEN OnlyDigits(v) ELSE v]
  /\ last' = NoEvent
  /\ UNCHANGED <<route, submitting, modalErr, addOpen, list, listLoading, listErr,
                 sub, srvList>>
  /\ UNCHANGED notProducts

\* the add button of the page, and the modal's effect on open: every field,
\* the error and the submitting flag are reset
openAdd ==
  /\ route = "products" /\ ~addOpen
  /\ addOpen' = TRUE
  /\ form' = BlankForm
  /\ modalErr' = NoErr
  /\ submitting' = FALSE
  /\ last' = NoEvent
  /\ UNCHANGED <<route, list, listLoading, listErr, sub, srvList>>
  /\ UNCHANGED notProducts

\* onClose from the close button or the backdrop
closeAdd ==
  /\ route = "products" /\ addOpen
  /\ addOpen' = FALSE
  /\ last' = NoEvent
  /\ UNCHANGED <<route, form, submitting, modalErr, list, listLoading, listErr,
                 sub, srvList>>
  /\ UNCHANGED notProducts

\* Number.isFinite(n) && n >= 0 for n = Number.parseInt(s.trim(), 10): an
\* optional plus sign and a digit first
NonNegative(s) ==
  LET t == Trim(s) IN
    /\ t # <<>>
    /\ IsDigit(t[1]) \/ (Len(t) > 1 /\ t[1] = "+" /\ IsDigit(t[2]))

\* the first validation of handleSubmit that fails
SubmitRefusal ==
  IF Trim(form.name) = <<>> THEN "name"
  ELSE IF ~NonNegative(form.price) THEN "price"
  ELSE IF Trim(form.contents) = <<>> THEN "contents"
  ELSE IF ~NonNegative(form.stock) THEN "stock"
  ELSE IF form.file = NoFile THEN "file"
  ELSE "none"

FreeSubmitSlot ==
  CHOOSE s \in SubmitSlots : sub[s].pc = "idle" /\ \A j \in 1..(s - 1) : sub[j].pc # "idle"

\* handleSubmit up to the upload request
handleSubmit ==
  /\ route = "products" /\ addOpen
  /\ UNCHANGED <<route, form, addOpen, list, listLoading, listErr, srvList>>
  /\ UNCHANGED notProducts
  /\ IF submitting
     THEN /\ last' = Event("submit", NULL, "rejected")
          /\ UNCHANGED <<submitting, modalErr, sub>>
     ELSE IF SubmitRefusal # "none"
     THEN /\ modalErr' = SubmitRefusal
          /\ last' = Event("submit", NULL, SubmitRefusal)
          /\ UNCHANGED <<submitting, sub>>
     ELSE /\ \E s \in SubmitSlots : sub[s].pc = "idle"
          /\ modalErr' = NoErr
          /\ submitting' = TRUE
          /\ sub' = [sub EXCEPT ![FreeSubmitSlot] =
                       [pc |-> "upload", phase |-> "sent", name |-> Trim(form.name),
                        imageUrl |-> <<>>]]
          /\ last' = NoEvent

\* the image URLs an upload response can carry: none, or /images/<file>
UploadUrls == {<<>>, ImagesPrefix \o File}

\* the backend answers the request of call s with success: the upload with
\* an image URL or none, the add by storing the product, the list GET
ServeSubmit(s) ==
  \E url \in UploadUrls :
    /\ sub[s].phase = "sent"
    /\ sub[s].pc = "add" => Len(srvList) < MaxSubmit
    /\ url # <<>> => sub[s].pc = "upload"
    /\ sub' = [sub EXCEPT ![s] =
                 [@ EXCEPT !.phase = "ok",
                           !.imageUrl = IF sub[s].pc = "upload" THEN url ELSE @]]
    /\ srvList' = IF sub[s].pc = "add"
                  THEN Append(srvList, [name |-> sub[s].name, imageUrl |-> sub[s].imageUrl])
                  ELSE srvList
    /\ last' = NoEvent
    /\ UNCHANGED <<route, form, submitting, modalErr, addOpen, list, listLoading,
                   listErr>>
    /\ UNCHANGED notProducts

\* a handler that does not test the image URL of the upload response
NoImageUrl_Unchecked(url) == FALSE

\* if (!imageUrl)
NoImageUrl(url) == url = <<>>

\* the list with every image reference normalised
FixedList ==
  [k \in 1..Len(srvList) |->
     [name |-> srvList[k].name, imageUrl |-> resolveImage(srvList[k].imageUrl)]]

\* handleSubmit after an await: the upload, the add, then onSaved (the
\* page's fetchProducts, which catches its own failures) and onClose
SubmitResume(s) ==
  \E o \in OrderOutcomes :
    /\ sub[s].pc # "idle"
    /\ IF o = "ok" THEN sub[s].phase = "ok" ELSE sub[s].phase = "sent"
    /\ o = "denied" => sub[s].pc = "refresh"
    /\ UNCHANGED <<form, srvList>>
    /\ UNCHANGED notProducts
    /\ IF sub[s].pc = "upload" /\ o = "ok" /\ ~NoImageUrl(sub[s].imageUrl)
       THEN /\ sub' = [sub EXCEPT ![s] = [@ EXCEPT !.pc = "add", !.phase = "sent"]]
            /\ last' = NoEvent
            /\ UNCHANGED <<route, submitting, modalErr, addOpen, list, listLoading,
                           listErr>>
       ELSE IF sub[s].pc = "add" /\ o = "ok"
       THEN \* onSaved: setLoading(true), setErr(null) and the list GET
            /\ sub' = [sub EXCEPT ![s] = [@ EXCEPT !.pc = "refresh", !.phase = "sent"]]
            /\ listLoading' = TRUE
            /\ listErr' = NoErr
            /\ last' = NoEvent
            /\ UNCHANGED <<route, submitting, modalErr, addOpen, list>>
       ELSE IF sub[s].pc = "refresh"
       THEN \* fetchProducts ends, then onClose and the finally block
            /\ sub' = [sub EXCEPT ![s] = NoSubmit]
            /\ list' = IF o = "ok" THEN FixedList ELSE list
            /\ listErr' = IF o = "bad" THEN "failed_list"
                          ELSE IF o = "err" THEN "network" ELSE listErr
            /\ route' = IF o = "denied" THEN "login" ELSE route
            /\ listLoading' = FALSE
            /\ addOpen' = FALSE
            /\ submitting' = FALSE
            /\ last' = IF o = "ok" THEN NoEvent ELSE Event("list", NULL, o)
            /\ UNCHANGED modalErr
       ELSE \* the upload or the add failed: setErr, return or catch, finally
            /\ sub' = [sub EXCEPT ![s] = NoSubmit]
            /\ modalErr' = IF o = "err" THEN "request"
                           ELSE IF o = "ok" THEN "no_image_url"
                           ELSE "failed_" \o sub[s].pc
            /\ submitting' = FALSE
            /\ last' = Event(sub[s].pc, NULL, IF o = "ok" THEN "no_image_url" ELSE o)
            /\ UNCHANGED <<route, addOpen, list, listLoading, listErr>>

\* ------------------------------------------------------ the specifications
\* The cart operations of the page, each handler callable with any argument:
\* mount, toggle, quantity change, summary refresh, and the backend.
Next ==
  \/ Mount /\ Tallied
  \/ \E p \in Products, nextChecked \in BOOLEAN, confirmed \in BOOLEAN :
       onToggleProduct(p, nextChecked, confirmed) /\ Tallied
  \/ ToggleResume /\ Tallied
  \/ \E p \in Products : increaseQty(p) /\ Tallied
  \/ \E p \in Products : decreaseQty(p) /\ Tallied
  \/ QtyResume /\ Tallied
  \/ \E c \in CartIds : EffectResume(c) /\ Tallied
  \/ ServeToggle /\ Tallied
  \/ ServeQty /\ Tallied
  \/ \E c \in CartIds : ServeEffect(c) /\ Tallied

Spec == Init /\ [][Next]_vars

\* what the rendered page lets the user do: a product's checkbox shows
\* isInCart and is disabled while that product is toggling, so a click asks
\* for the opposite of isInCart; the pay button is disabled while paying
CheckboxClick(productId, nextChecked) ==
  togglingId # productId /\ nextChecked = ~isInCart(productId)

PayButtonEnabled == ~paying

\* The page with its checkout, driven through the rendered controls: the
\* product checkboxes, the checkout form and the pay button.
NextPay ==
  \/ Mount /\ Untallied
  \/ \E v \in EmailValues : SetEmail(v) /\ Untallied
  \/ \E v \in AddrValues : SetAddr(v) /\ Untallied
  \/ \E v \in ZipValues : SetZip(v) /\ Untallied
  \/ \E p \in Products, nextChecked \in BOOLEAN, confirmed \in BOOLEAN :
       CheckboxClick(p, nextChecked) /\ onToggleProduct(p, nextChecked, confirmed)
       /\ Untallied
  \/ ToggleResume /\ Untallied
  \/ PayButtonEnabled /\ onPay /\ Untallied
  \/ \E i \in PaySlots : PayCreated(i) /\ Untallied
  \/ \E i \in PaySlots : PayResume(i) /\ Untallied
  \/ \E c \in CartIds : EffectResume(c) /\ Untallied
  \/ ServeToggle /\ Untallied
  \/ \E i \in PaySlots : ServePay(i) /\ Untallied
  \/ \E c \in CartIds : ServeEffect(c) /\ Untallied

SpecPay == Init /\ [][NextPay]_vars

\* what a user may type into the checkout form: well-formed values, values
\* that need trimming, and malformed ones
BadEmail == <<"b", "a", "d", "-", "e", "m", "a", "i", "l">>

FormEmails ==
  {<<>>, BadEmail, <<"a", "@", "b", ".", "c">>, <<" ", "a", "@", "b", ".", "c">>,
   <<"a", "@", "b">>}

FormAddrs == {<<>>, <<" ">>, <<"x">>}

FormZips ==
  {<<>>, <<"1", "2", "3", "4", "5">>, <<"1", "2", "3", "4">>,
   <<"1", "2", "a", "4", "5">>, <<"1", "2", "3", "4", "5", " ">>}

\* The checkout form: a page that restores its cart or has none, the form
\* filled with any of these values, and the pay button.
NextForm ==
  \/ Mount /\ Untallied
  \/ \E c \in CartIds : ServeEffect(c) /\ Untallied
  \/ \E c \in CartIds : EffectResume(c) /\ Untallied
  \/ \E v \in FormEmails : SetEmail(v) /\ Untallied
  \/ \E v \in FormAddrs : SetAddr(v) /\ Untallied
  \/ \E v \in FormZips : SetZip(v) /\ Untallied
  \/ PayButtonEnabled /\ onPay /\ Untallied
  \/ \E i \in PaySlots : PayResume(i) /\ Untallied
  \/ \E i \in PaySlots : ServePay(i) /\ Untallied

SpecForm == Init /\ [][NextForm]_vars

\* a page restored with a cart that holds one of each product of a catalog
\* of MaxTarget products
InitTwo ==
  /\ mounted = FALSE
  /\ cartId = NULL
  /\ stored = 1
  /\ summary = EmptySummary
  /\ email = <<>>
  /\ addr = <<>>
  /\ zip = <<>>
  /\ togglingId = NULL
  /\ mutatingId = NULL
  /\ paying = FALSE
  /\ tog = Idle
  /\ qty = Idle
  /\ pay = [i \in PaySlots |-> Idle]
  /\ eff = [c \in CartIds |-> Idle]
  /\ srvNext = 2
  /\ srvCart = [c \in CartIds |-> [p \in Targets |-> IF c < srvNext THEN 1 ELSE 0]]
  /\ last = NoEvent
  /\ tally = NoTally
  /\ products = <<>>
  /\ detailOpen = FALSE
  /\ detailLoading = FALSE
  /\ detail = NoDetail
  /\ cat = NoFetch
  /\ det = [i \in DetailSlots |-> NoFetch]
  /\ AdminStart("login")

\* The cart operations on a catalog of several products, each handler
\* callable for any of them; of the two quantity handlers, which share their
\* guard, decreaseQty stands for both.
NextTwo ==
  \/ Mount /\ Untallied
  \/ \E p \in Targets, nextChecked \in BOOLEAN, confirmed \in BOOLEAN :
       onToggleProduct(p, nextChecked, confirmed) /\ Untallied
  \/ ToggleResume /\ Untallied
  \/ \E p \in Targets : decreaseQty(p) /\ Untallied
  \/ QtyResume /\ Untallied
  \/ \E c \in CartIds : EffectResume(c) /\ Untallied
  \/ ServeToggle /\ Untallied
  \/ ServeQty /\ Untallied
  \/ \E c \in CartIds : ServeEffect(c) /\ Untallied

SpecTwo == InitTwo /\ [][NextTwo]_vars

\* The catalog: the product list loaded at mount and the detail modal, the
\* detail button of a product being rendered once the product is listed.
NextCatalog ==
  \/ Mount /\ Untallied
  \/ ServeProducts(CatalogBodies) /\ Untallied
  \/ ProductsResume /\ Untallied
  \/ \E k \in 1..Len(products) : openDetail(products[k].id) /\ Untallied
  \/ \E i \in DetailSlots : ServeDetail(i, RawImages) /\ Untallied
  \/ \E i \in DetailSlots : DetailResume(i) /\ Untallied
  \/ closeDetail /\ Untallied

SpecCatalog == Init /\ [][NextCatalog]_vars

\* the quantity buttons of a summary line: rendered for the products of the
\* summary, disabled while that product's quantity is changing
QtyButton(productId) == isInCart(productId) /\ mutatingId # productId

\* a catalog that lists every product, with file names for images
FileCatalog == [p \in Products |-> Dto(p, File)]

\* The page without its checkout, driven through the rendered controls: the
\* catalog load, the detail modal, the product checkboxes and the quantity
\* buttons.
NextShop ==
  \/ Mount /\ Untallied
  \/ ServeProducts({FileCatalog}) /\ Untallied
  \/ ProductsResume /\ Untallied
  \/ \E k \in 1..Len(products) : openDetail(products[k].id) /\ Untallied
  \/ \E i \in DetailSlots : ServeDetail(i, {File}) /\ Untallied
  \/ \E i \in DetailSlots : DetailResume(i) /\ Untallied
  \/ closeDetail /\ Untallied
  \/ \E k \in 1..Len(products), nextChecked \in BOOLEAN, confirmed \in BOOLEAN :
       CheckboxClick(products[k].id, nextChecked)
       /\ onToggleProduct(products[k].id, nextChecked, confirmed) /\ Untallied
  \/ ToggleResume /\ Untallied
  \/ \E p \in Products : QtyButton(p) /\ increaseQty(p) /\ Untallied
  \/ \E p \in Products : QtyButton(p) /\ decreaseQty(p) /\ Untallied
  \/ QtyResume /\ Untallied
  \/ \E c \in CartIds : EffectResume(c) /\ Untallied
  \/ ServeToggle /\ Untallied
  \/ ServeQty /\ Untallied
  \/ \E c \in CartIds : ServeEffect(c) /\ Untallied

SpecShop == Init /\ [][NextShop]_vars

\* no handler is suspended, whatever the summary fetches of the [cartId]
\* effect
Settled ==
  /\ tog.pc = "idle" /\ qty.pc = "idle" /\ cat.pc = "idle"
  /\ \A i \in PaySlots : pay[i].pc = "idle"
  /\ \A i \in DetailSlots : det[i].pc = "idle"

\* The whole page in the hands of a user who acts on the rendered controls
\* and waits for each operation to end before the next.
NextSolo ==
  \/ Mount /\ Untallied
  \/ ServeProducts({FileCatalog}) /\ Untallied
  \/ ProductsResume /\ Untallied
  \/ \E k \in 1..Len(products) : Settled /\ openDetail(products[k].id) /\ Untallied
  \/ \E i \in DetailSlots : ServeDetail(i, {File}) /\ Untallied
  \/ \E i \in DetailSlots : DetailResume(i) /\ Untallied
  \/ Settled /\ closeDetail /\ Untallied
  \/ \E v \in EmailValues : Settled /\ SetEmail(v) /\ Untallied
  \/ \E v \in AddrValues : Settled /\ SetAddr(v) /\ Untallied
  \/ \E v \in ZipValues : Settled /\ SetZip(v) /\ Untallied
  \/ \E k \in 1..Len(products), nextChecked \in BOOLEAN, confirmed \in BOOLEAN :
       Settled /\ CheckboxClick(products[k].id, nextChecked)
       /\ onToggleProduct(products[k].id, nextChecked, confirmed) /\ Untallied
  \/ ToggleResume /\ Untallied
  \/ \E p \in Products : Settled /\ QtyButton(p) /\ increaseQty(p) /\ Untallied
  \/ \E p \in Products : Settled /\ QtyButton(p) /\ decreaseQty(p) /\ Untallied
  \/ QtyResume /\ Untallied
  \/ Settled /\ PayButtonEnabled /\ onPay /\ Untallied
  \/ \E i \in PaySlots : PayCreated(i) /\ Untallied
  \/ \E i \in PaySlots : PayResume(i) /\ Untallied
  \/ \E c \in CartIds : EffectResume(c) /\ Untallied
  \/ ServeToggle /\ Untallied
  \/ ServeQty /\ Untallied
  \/ \E i \in PaySlots : ServePay(i) /\ Untallied
  \/ \E c \in CartIds : ServeEffect(c) /\ Untallied

SpecSolo == Init /\ [][NextSolo]_vars

\* a backend with room for one cart more
RaceCarts == 1..(MaxCarts + 1)

\* a page loaded with no persisted cart id
InitRace ==
  /\ mounted = FALSE
  /\ cartId = NULL
  /\ stored = NULL
  /\ summary = EmptySummary
  /\ email = <<>>
  /\ addr = <<>>
  /\ zip = <<>>
  /\ togglingId = NULL
  /\ mutatingId = NULL
  /\ paying = FALSE
  /\ tog = Idle
  /\ qty = Idle
  /\ pay = [i \in PaySlots |-> Idle]
  /\ eff = [c \in RaceCarts |-> Idle]
  /\ srvNext = 1
  /\ srvCart = [c \in RaceCarts |-> EmptyCart]
  /\ last = NoEvent
  /\ tally = NoTally
  /\ products = <<>>
  /\ detailOpen = FALSE
  /\ detailLoading = FALSE
  /\ detail = NoDetail
  /\ cat = NoFetch
  /\ det = [i \in DetailSlots |-> NoFetch]
  /\ AdminStart("login")

\* The page with its checkout, from a first visit on: the user adds products
\* by their checkboxes, fills the form with well-formed values and pays.
NextRace ==
  \/ Mount /\ Untallied
  \/ \E v \in EmailValues \ {<<>>} : SetEmail(v) /\ Untallied
  \/ \E v \in AddrValues \ {<<>>} : SetAddr(v) /\ Untallied
  \/ \E v \in ZipValues \ {<<>>} : SetZip(v) /\ Untallied
  \/ \E p \in Products :
       CheckboxClick(p, TRUE) /\ onToggleProduct(p, TRUE, TRUE) /\ Untallied
  \/ ToggleResume /\ Untallied
  \/ PayButtonEnabled /\ onPay /\ Untallied
  \/ \E i \in PaySlots : PayCreated(i) /\ Untallied
  \/ \E i \in PaySlots : PayResume(i) /\ Untallied
  \/ \E c \in RaceCarts : EffectResume(c) /\ Untallied
  \/ ServeToggle /\ Untallied
  \/ \E i \in PaySlots : ServePay(i) /\ Untallied
  \/ \E c \in RaceCarts : ServeEffect(c) /\ Untallied

SpecRace == InitRace /\ [][NextRace]_vars

\* The page with its checkout for a user who adds products by their
\* checkboxes, fills the form with well-formed values and pays, every request
\* of a checkout resolving in the end.
NextCheckout ==
  \/ Mount /\ Untallied
  \/ \E v \in EmailValues \ {<<>>} : SetEmail(v) /\ Untallied
  \/ \E v \in AddrValues \ {<<>>} : SetAddr(v) /\ Untallied
  \/ \E v \in ZipValues \ {<<>>} : SetZip(v) /\ Untallied
  \/ \E p \in Products :
       CheckboxClick(p, TRUE) /\ onToggleProduct(p, TRUE, TRUE) /\ Untallied
  \/ ToggleResume /\ Untallied
  \/ PayButtonEnabled /\ onPay /\ Untallied
  \/ \E i \in PaySlots : PayCreated(i) /\ Untallied
  \/ \E i \in PaySlots : PayResume(i) /\ Untallied
  \/ \E c \in CartIds : EffectResume(c) /\ Untallied
  \/ ServeToggle /\ Untallied
  \/ \E i \in PaySlots : ServePay(i) /\ Untallied
  \/ \E c \in CartIds : ServeEffect(c) /\ Untallied

SpecCheckout ==
  /\ Init
  /\ [][NextCheckout]_vars
  /\ \A i \in PaySlots : WF_vars(PayCreated(i) /\ Untallied)
  /\ \A i \in PaySlots : WF_vars(PayResume(i) /\ Untallied)

\* the order page just opened by a signed-in administrator
InitOrders ==
  /\ mounted = FALSE
  /\ cartId = NULL
  /\ stored = NULL
  /\ summary = EmptySummary
  /\ email = <<>>
  /\ addr = <<>>
  /\ zip = <<>>
  /\ togglingId = NULL
  /\ mutatingId = NULL
  /\ paying = FALSE
  /\ tog = Idle
  /\ qty = Idle
  /\ pay = [i \in PaySlots |-> Idle]
  /\ eff = [c \in CartIds |-> Idle]
  /\ srvNext = 1
  /\ srvCart = [c \in CartIds |-> EmptyCart]
  /\ last = NoEvent
  /\ tally = NoTally
  /\ products = <<>>
  /\ detailOpen = FALSE
  /\ detailLoading = FALSE
  /\ detail = NoDetail
  /\ cat = NoFetch
  /\ det = [i \in DetailSlots |-> NoFetch]
  /\ route = "order"
  /\ adminToken = "token"
  /\ orderMounted = FALSE
  /\ orders = <<>>
  /\ ordersFrom = "none"
  /\ orderLoading = TRUE
  /\ orderErr = NoErr
  /\ dailyMode = FALSE
  /\ expanded = {}
  /\ ord = [s \in OrderSlots |-> NoOrderFetch]
  /\ username = <<>>
  /\ password = <<>>
  /\ loginLoading = FALSE
  /\ loginErr = NoErr
  /\ login = NoLogin
  /\ form = BlankForm
  /\ submitting = FALSE
  /\ modalErr = NoErr
  /\ addOpen = FALSE
  /\ list = <<>>
  /\ listLoading = TRUE
  /\ listErr = NoErr
  /\ sub = [s \in SubmitSlots |-> NoSubmit]
  /\ srvList = <<>>

\* The admin order page: mount, the mode buttons, refresh, the rows, logout,
\* and the backend answering in any order.
NextOrders ==
  \/ OrderMount /\ Untallied
  \/ refresh /\ Untallied
  \/ switchToDaily /\ Untallied
  \/ switchToAll /\ Untallied
  \/ \E k \in 1..Len(orders) : toggleOne(orders[k]) /\ Untallied
  \/ logout /\ Untallied
  \/ \E s \in OrderSlots, malformed \in BOOLEAN : ServeOrders(s, malformed) /\ Untallied
  \/ \E s \in OrderSlots : OrderResume(s) /\ Untallied

SpecOrders == InitOrders /\ [][NextOrders]_vars

\* The admin login page: the two fields, the submit button and the backend.
NextLogin ==
  \/ \E v \in Usernames : SetUsername(v) /\ Untallied
  \/ \E v \in Passwords : SetPassword(v) /\ Untallied
  \/ SubmitEnabled /\ onSubmit /\ Untallied
  \/ ServeLogin /\ Untallied
  \/ LoginResume /\ Untallied

SpecLogin == Init /\ [][NextLogin]_vars

\* the admin products page just opened, its modal closed
InitProducts ==
  /\ mounted = FALSE
  /\ cartId = NULL
  /\ stored = NULL
  /\ summary = EmptySummary
  /\ email = <<>>
  /\ addr = <<>>
  /\ zip = <<>>
  /\ togglingId = NULL
  /\ mutatingId = NULL
  /\ paying = FALSE
  /\ tog = Idle
  /\ qty = Idle
  /\ pay = [i \in PaySlots |-> Idle]
  /\ eff = [c \in CartIds |-> Idle]
  /\ srvNext = 1
  /\ srvCart = [c \in CartIds |-> EmptyCart]
  /\ last = NoEvent
  /\ tally = NoTally
  /\ products = <<>>
  /\ detailOpen = FALSE
  /\ detailLoading = FALSE
  /\ detail = NoDetail
  /\ cat = NoFetch
  /\ det = [i \in DetailSlots |-> NoFetch]
  /\ AdminStart("products")

\* what is typed into the text fields and picked as a file
FieldValues(f) ==
  IF f = "file" THEN {NoFile, "file"}
  ELSE IF f \in {"price", "stock"} THEN {<<>>, <<"5">>, <<"-", "x">>}
  ELSE {<<>>, <<"n">>}

\* The add-product modal of the admin products page: open, close, the
\* fields, the submission and the backend.
NextProducts ==
  \/ openAdd /\ Untallied
  \/ closeAdd /\ Untallied
  \/ \E f \in DOMAIN BlankForm : \E v \in FieldValues(f) : SetField(f, v) /\ Untallied
  \/ handleSubmit /\ Untallied
  \/ \E s \in SubmitSlots : ServeSubmit(s) /\ Untallied
  \/ \E s \in SubmitSlots : SubmitResume(s) /\ Untallied

SpecProducts == InitProducts /\ [][NextProducts]_vars

\* The cart operations with every issued request resolving in the end: the
\* continuation of a suspended handler runs once its request has resolved.
SpecLive ==
  /\ Init
  /\ [][Next]_vars
  /\ WF_vars(ToggleResume /\ Tallied)
  /\ WF_vars(QtyResume /\ Tallied)

\* ------------------------------------------------------------------ claims
\* a request of the given kind is awaited by task t for cart id
Awaits(t, kind, id) == t.pc = kind /\ t.phase = "sent" /\ t.id = id

\* the continuation of task t runs on the success of a mutation request
MutationSucceeds(t, u) ==
  t.pc \in {"add", "remove", "increase", "decrease"} /\ t.phase = "ok" /\ u # t

\* the summaries the backend can answer with
ServerSummaries == {SummaryOf(c) : c \in [Products -> 0..MaxQty]}

\* C1: when the add POST or the DELETE of a toggle, or the increase or
\* decrease POST, returns success, the same call goes on to await a summary
\* GET for the same cart id with its guard still held; and the summary state
\* only ever changes to the body of a summary response.
C1_RefreshFollowsMutation ==
  [][/\ MutationSucceeds(tog, tog') =>
          /\ Awaits(tog', "summary", tog.id)
          /\ tog'.productId = tog.productId
          /\ togglingId = tog.productId /\ togglingId' = togglingId
     /\ MutationSucceeds(qty, qty') =>
          /\ Awaits(qty', "summary", qty.id)
          /\ qty'.productId = qty.productId
          /\ mutatingId = qty.productId /\ mutatingId' = mutatingId
     /\ summary' # summary =>
          \E t \in {tog, qty} \cup {eff[c] : c \in CartIds} :
            t.pc = "summary" /\ t.phase = "ok" /\ summary' = t.body
    ]_vars

C1_Witness ==
  /\ Awaits(tog, "summary", cartId) /\ tog.did = "remove" /\ togglingId = tog.productId
  /\ Awaits(qty, "summary", cartId) /\ qty.did = "increase" /\ mutatingId = qty.productId

\* a call whose mutation request and summary fetch both succeeded ends
Completes(t, u) ==
  /\ t.pc = "summary" /\ t.did \in {"add", "remove", "increase", "decrease"}
  /\ t.phase = "ok"
  /\ u.pc = "idle"

\* C2 as stated: when a mutation operation that succeeded ends, the displayed
\* summary equals the backend's current summary of that cart.
C2_SummaryIsLatest ==
  [][/\ Completes(tog, tog') => summary' = SummaryOf(srvCart'[tog.id])
     /\ Completes(qty, qty') => summary' = SummaryOf(srvCart'[qty.id])
    ]_vars

\* C2 amended: when a mutation operation that succeeded ends, the displayed
\* summary is the whole body of that operation's own summary response, and
\* that body is the summary the backend computed for the cart at the moment
\* it answered.
C2_SummaryIsOwnResponse ==
  [][/\ Completes(tog, tog') => summary' = tog.body /\ togglingId' = NULL
     /\ Completes(qty, qty') => summary' = qty.body /\ mutatingId' = NULL
     /\ \A t \in {tog', qty'} :
          t.pc = "summary" /\ t.phase = "ok" /\ t \notin {tog, qty} =>
            t.body = SummaryOf(srvCart[t.id]) /\ t.body \in ServerSummaries
    ]_vars

C2_Witness ==
  /\ tog.pc = "summary" /\ tog.did = "add" /\ tog.phase = "ok"
  /\ tog.body # SummaryOf(srvCart[tog.id])
  /\ tog.body # summary

\* C3 as stated: no two mutation operations on the same product are in
\* flight at the same time.
C3_OneMutationPerProduct ==
  ~(tog.pc # "idle" /\ qty.pc # "idle" /\ tog.productId = qty.productId)

\* C4: a toggle or a quantity change that has taken its guard releases it in
\* the end, whatever its requests resolve to.
C4_GuardReleased ==
  /\ \A p \in Products : (togglingId = p) ~> (togglingId = NULL)
  /\ \A p \in Products : (mutatingId = p) ~> (mutatingId = NULL)

C4_Witness ==
  /\ togglingId = NULL /\ tog.pc = "idle"
  /\ last.op = "add" /\ last.result = "err"

\* the calls that go through ensureCartId: the toggle and the checkouts
Callers == {0} \cup PaySlots

Before(k) == IF k = 0 THEN tog ELSE pay[k]

After(k) == IF k = 0 THEN tog' ELSE pay'[k]

\* call k issues a request of one of the given kinds in this step
Issues(k, kinds) ==
  After(k).pc \in kinds /\ After(k).phase = "sent" /\ After(k) # Before(k)

\* call k starts in this step
Starts(k) == Before(k).pc = "idle" /\ After(k).pc # "idle"

\* C5: while a cart id is held in memory, no step issues a cart-creation
\* request, and a call that starts goes straight to its own request with
\* that same id, the id in memory and the persisted id staying as they are.
C5_EnsureCartIdIdempotent ==
  [][cartId # NULL =>
       \A k \in Callers :
         /\ ~Issues(k, {"create"})
         /\ Starts(k) =>
              /\ After(k).id = cartId
              /\ cartId' = cartId /\ stored' = stored
    ]_vars

C5_Witness ==
  /\ cartId # NULL /\ stored = cartId
  /\ Awaits(tog, "add", cartId)
  /\ Awaits(pay[1], "email", cartId)
  /\ srvNext = cartId + 1

\* the cart creation awaited by call k resolves as a failure in this step
CreationFails(k) ==
  Before(k).pc = "create" /\ Before(k).phase = "sent" /\ After(k).pc # "create"

\* C6: when the cart creation a call awaits fails, the id in memory and the
\* persisted id stay as they are and the call ends without another request;
\* and whenever an add or a DELETE is issued it carries the id held in
\* memory, which is not null.
C6_CreationFailureStops ==
  [][\A k \in Callers :
       /\ CreationFails(k) =>
            /\ cartId' = cartId /\ stored' = stored
            /\ After(k) = Idle
            /\ k = 0 => togglingId' = NULL
            /\ k # 0 => paying' = paying
       /\ Issues(k, {"add", "remove", "increase", "decrease"}) =>
            After(k).id # NULL /\ After(k).id = cartId'
    ]_vars

C6_Witness ==
  /\ last = Event("pay", NULL, "alert_create_failed")
  /\ cartId = NULL /\ stored = NULL
  /\ \A i \in PaySlots : pay[i].pc = "idle"

\* C7 as stated: cart creation is never awaited while a cart id is held in
\* memory, and no two cart creations are awaited at the same time.
C7_OneCreation ==
  LET creating == {k \in Callers : Before(k).pc = "create"} IN
  /\ Cardinality(creating) <= 1
  /\ creating # {} => cartId = NULL

\* C8 as stated: a toggleAdd call for a product in the current summary
\* issues no request: no such call ever starts awaiting one.
C8_ToggleAddMemberNoop ==
  [][\A p \in Products :
       isInCartOf(summary, p) => ~(StartsToggleAdd /\ tog'.productId = p)
    ]_vars

\* C9: two toggleAdd calls in succession for a product that was in the
\* summary when the first was made issue at most one add-item request
\* between them.
C9_TwiceAtMostOneAdd == tally.calls > 0 => tally.adds <= 1

C9_Witness ==
  /\ tally.calls = 2 /\ tally.adds = 1
  /\ tog.pc = "idle" /\ togglingId = NULL
  /\ isInCartOf(summary, tally.productId)

\* C10: a DELETE is only ever issued for a product in the current summary
\* and for the cart id held in memory; a toggleRemove call for a product not
\* in the summary ends at once and changes nothing: no request, no guard, no
\* cart state.
C10_ToggleRemoveNonMemberNoop ==
  [][/\ Issues(0, {"remove"}) =>
          isInCartOf(summary, tog'.productId) /\ cartId # NULL /\ tog'.id = cartId
     /\ \A p \in Products :
          ~isInCartOf(summary, p) /\ last'.op = "toggleRemove" /\ last'.productId = p =>
            /\ last'.result \in {"noop", "rejected"}
            /\ UNCHANGED <<client, tog, qty, pay, eff, srvNext, srvCart>>
    ]_vars

C10_Witness ==
  /\ last = Event("toggleRemove", 1, "noop")
  /\ ~isInCartOf(summary, 1)
  /\ cartId # NULL /\ srvCart[cartId][1] > 0
  /\ tog.pc = "idle"

\* everything but the record of the last step
world == <<mounted, client, shop, tog, qty, pay, eff, srvNext, srvCart>>

\* C11: a DELETE is issued only in a step in which window.confirm was
\* answered with yes, for that product; a step in which it was answered with
\* no issues no request and changes nothing: not the cart id, not the
\* persisted id, not the summary, not the guard.
C11_DeleteOnlyConfirmed ==
  [][/\ Issues(0, {"remove"}) =>
          last' = Event("toggleRemove", tog'.productId, "confirmed")
     /\ last'.result = "declined" => UNCHANGED world
    ]_vars

C11_Witness ==
  /\ last = Event("toggleRemove", 1, "declined")
  /\ isInCartOf(summary, 1) /\ cartId # NULL
  /\ tog.pc = "idle" /\ togglingId = NULL

\* C12: the quantity handlers never await a cart creation, and with no cart
\* id in memory a call of increaseQty or decreaseQty issues no request and
\* changes nothing.
C12_QtyNeverCreates ==
  [][/\ qty'.pc # "create"
     /\ qty'.pc # "idle" => qty'.id # NULL
     /\ cartId = NULL => qty' = qty /\ mutatingId' = mutatingId
     /\ cartId = NULL /\ last'.op \in {"increase", "decrease"} =>
          last'.result = "rejected" /\ UNCHANGED world
    ]_vars

C12_Witness ==
  /\ mounted /\ cartId = NULL
  /\ last = Event("decrease", 1, "rejected")
  /\ qty.pc = "idle" /\ mutatingId = NULL

\* C13: when the add POST, the DELETE, the increase POST or the decrease POST
\* comes back with a non-success status, the call ends there: it awaits no
\* summary GET, its guard is released and the summary stays as it was.
C13_BadStatusAborts ==
  [][\A kind \in {"add", "remove", "increase", "decrease"} :
       last'.op = kind /\ last'.result = "bad" =>
         /\ summary' = summary
         /\ tog.pc = kind => tog' = Idle /\ togglingId' = NULL /\ qty' = qty
         /\ qty.pc = kind => qty' = Idle /\ mutatingId' = NULL /\ tog' = tog
         /\ eff' = eff
    ]_vars

C13_Witness ==
  /\ last = Event("increase", 1, "bad")
  /\ qty.pc = "idle" /\ mutatingId = NULL
  /\ summary # SummaryOf(srvCart[cartId])

\* the calls that can await a summary GET
Fetching == {tog, qty} \cup {eff[c] : c \in CartIds}

GoodEmails == {<<"a", "@", "b", ".", "c">>}

GoodZips == {<<"1", "2", "3", "4", "5">>}

CheckoutRequests == {"create", "email", "date", "customer"}

ValidationAlerts == {"alert_empty_cart", "alert_email", "alert_address", "alert_zip"}

\* C16: when onPay refuses a submission with a validation message, the
\* message is the one of the first check that fails in the order cart, email,
\* address, postal code, whatever the later fields hold, and nothing else
\* happens.
C16_FirstFailingCheck ==
  [][last'.op = "pay" /\ last'.result \in ValidationAlerts =>
       LET cartOk == Len(summary.items) >= 1
           emailOk == Trim(email) \in GoodEmails
           addrOk == Trim(addr) # <<>>
           zipOk == Trim(zip) \in GoodZips
       IN /\ ~cartOk => last'.result = "alert_empty_cart"
          /\ cartOk /\ ~emailOk => last'.result = "alert_email"
          /\ cartOk /\ emailOk /\ ~addrOk => last'.result = "alert_address"
          /\ cartOk /\ emailOk /\ addrOk => last'.result = "alert_zip" /\ ~zipOk
          /\ UNCHANGED world
    ]_vars

C16_Witness ==
  /\ last = Event("pay", NULL, "alert_email")
  /\ Len(summary.items) >= 1
  /\ Trim(email) = <<"a", "@", "b">>
  /\ Trim(addr) = <<>> /\ Trim(zip) \notin GoodZips

\* C17: a checkout call issues its requests in the order email, date,
\* customer: the email POST first (at the start, or once its cart creation
\* has succeeded) with the cart id then in memory, the date POST in the step
\* in which the email POST resolves, the customer POST in the step in which
\* the date POST resolves, both with the id of the email POST; after the
\* customer POST the call ends, so none is issued twice.
C17_EmailDateCustomer ==
  [][\A i \in PaySlots :
       /\ Issues(i, {"email"}) =>
            /\ Before(i).pc \in {"idle", "create"}
            /\ After(i).id = cartId' /\ After(i).id # NULL
       /\ Issues(i, {"date"}) =>
            Before(i).pc = "email" /\ After(i).id = Before(i).id
       /\ Issues(i, {"customer"}) =>
            Before(i).pc = "date" /\ After(i).id = Before(i).id
       /\ Before(i).pc = "email" /\ After(i) # Before(i) => After(i).pc = "date"
       /\ Before(i).pc = "date" /\ After(i) # Before(i) => After(i).pc = "customer"
       /\ Before(i).pc = "customer" /\ After(i) # Before(i) =>
            After(i) \in {Idle, [Before(i) EXCEPT !.phase = "ok"]}
    ]_vars

C17_Witness ==
  /\ Awaits(pay[1], "customer", cartId)
  /\ paying /\ last = NoEvent
  /\ pay[2].pc = "idle"

\* the customer POST of checkout call i has been answered with success and
\* the call resumes in this step
CustomerSucceeds(i) ==
  Before(i).pc = "customer" /\ Before(i).phase = "ok" /\ After(i) # Before(i)

\* C18: whatever the email POST or the date POST resolves to, the call goes
\* on to the next request in the same step and nothing of the cart or of the
\* form changes; the call awaiting the customer POST keeps no trace of how the
\* two resolved, and when the customer POST succeeds the page is reset.
C18_EmailDateTolerated ==
  [][\A i \in PaySlots :
       /\ Before(i).pc \in {"email", "date"} /\ After(i) # Before(i) =>
            /\ Awaits(After(i), IF Before(i).pc = "email" THEN "date" ELSE "customer",
                      Before(i).id)
            /\ UNCHANGED <<cartId, stored, summary, email, addr, zip, paying>>
            /\ last' \in {Diagnostic(Before(i).pc, NULL, o) : o \in Outcomes}
       /\ After(i).pc = "customer" =>
            After(i) = [Request("customer", NULL, After(i).id, FALSE)
                          EXCEPT !.did = After(i).did, !.phase = After(i).phase]
       /\ CustomerSucceeds(i) =>
            /\ cartId' = NULL /\ stored' = NULL /\ summary' = EmptySummary
            /\ email' = <<>> /\ addr' = <<>> /\ zip' = <<>>
    ]_vars

C18_Witness ==
  /\ last = Event("date", NULL, "err")
  /\ Awaits(pay[1], "customer", cartId)
  /\ paying

\* the customer POST of checkout call i fails in this step
CustomerFails(i) ==
  Before(i).pc = "customer" /\ Before(i).phase = "sent" /\ After(i).phase # "ok"
  /\ After(i) # Before(i)

ResetState ==
  /\ cartId = NULL /\ stored = NULL
  /\ summary = EmptySummary
  /\ email = <<>> /\ addr = <<>> /\ zip = <<>>

\* no handler is running
Quiet == tog.pc = "idle" /\ qty.pc = "idle" /\ \A i \in PaySlots : pay[i].pc = "idle"

\* the step in which the customer POST of a checkout succeeds leaves the
\* reset state
ResetAtSuccess ==
  \A i \in PaySlots : CustomerSucceeds(i) => ResetState' /\ After(i) = Idle

\* C20 as stated: the step in which the customer POST succeeds leaves the
\* cart id null, the persisted id removed, the summary empty and the fields
\* empty, and with no handler running that state stays until the user acts:
\* no answer to a summary fetch changes it.
C20_ResetPersists ==
  [][/\ ResetAtSuccess
     /\ ResetState /\ Quiet /\ eff' # eff => ResetState'
    ]_vars

\* the first half of C20 alone
C20_ResetStep == [][ResetAtSuccess]_vars

\* the checkout calls that have passed validation and have not finished
Submitting == {i \in PaySlots : pay[i].pc # "idle"}

\* C21 as stated: checkout submissions never overlap: at no time are two
\* checkout calls past their validation and not yet finished.
C21_NoOverlap == Cardinality(Submitting) <= 1

\* the part of C21 that holds: while paying is set, a submission is rejected
\* and issues no request, and a call only starts with paying not set.
C21_PayingRejects ==
  [][/\ paying /\ last'.op = "pay" /\ last'.result = "rejected" => UNCHANGED world
     /\ \A i \in PaySlots : Starts(i) => ~paying
    ]_vars

\* a mutation of product p is outstanding
Outstanding(p) ==
  \/ tog.pc # "idle" /\ tog.productId = p
  \/ qty.pc # "idle" /\ qty.productId = p

MutationOps == {"toggleAdd", "toggleRemove", "increase", "decrease"}

\* C22 as stated: the guard is per product: with a cart id held, a toggle, an
\* increase or a decrease is rejected by a guard only when a mutation of the
\* same product is outstanding; one for another product is accepted.
C22_GuardPerProduct ==
  [][cartId # NULL /\ last'.op \in MutationOps /\ last'.result = "rejected" =>
       Outstanding(last'.productId)
    ]_vars

\* a state the page does reach: a toggle of one product and a quantity
\* change of another in flight together
C22_TwoFamilies ==
  /\ tog.pc # "idle" /\ qty.pc # "idle"
  /\ tog.productId # qty.productId

\* the step is the mount-time restore: the persisted id, untouched, becomes
\* the id in memory
Restores == ~mounted /\ mounted' /\ cartId' = stored /\ stored' = stored

\* the step is the end of a cart creation: the id the backend returned is
\* persisted and becomes the id in memory
Creates ==
  \E k \in Callers :
    /\ Before(k).pc = "create" /\ Before(k).phase = "ok" /\ After(k).pc # "create"
    /\ cartId' = Before(k).newId /\ stored' = Before(k).newId

\* the step is the reset of a checkout whose customer POST succeeded
Resets == \E i \in PaySlots : CustomerSucceeds(i) /\ cartId' = NULL /\ stored' = NULL

\* C23: the cart id in memory and the persisted id change only in the mount
\* step, at the end of a cart creation and in the reset of a checkout; every
\* step of the catalog load, of a summary fetch, of toggleRemove, of
\* increaseQty and decreaseQty and of the detail fetch leaves both as they
\* are, whatever the outcome of its request.
C23_IdentityWriters ==
  [][/\ cartId' # cartId \/ stored' # stored => Restores \/ Creates \/ Resets
     /\ \/ cat' # cat \/ det' # det \/ qty' # qty \/ products' # products
        \/ summary' # summary \/ detail' # detail
        \/ \E c \in CartIds : eff[c].pc = "summary" /\ eff'[c] # eff[c]
        \/ tog' # tog /\ "remove" \in {tog.pc, tog.did, tog'.pc}
        \/ tog' # tog /\ tog.pc = "summary"
        => \/ cartId' = cartId /\ stored' = stored
           \/ Restores
           \/ Resets
    ]_vars

C23_Witness ==
  /\ cartId = 1 /\ stored = 1
  /\ products # <<>> /\ detail # NoDetail
  /\ srvCart[1][1] = 0 /\ summary = EmptySummary
  /\ tog.pc = "idle" /\ qty.pc = "idle"
  /\ last = Event("summary", NULL, "bad")

\* the request awaited by a call fails in this step: the call was waiting
\* for the answer and moves on without one
FailsNow(t, u) == t.phase = "sent" /\ u # t /\ ~(u.pc = t.pc /\ u.phase = "ok")

\* C24: no step reports an error that left its handler uncaught; and when the
\* request of an operation fails, by status or by network error, the call
\* ends and gives back what keeps the user from acting again: togglingId,
\* mutatingId, paying, detailLoading (a checkout goes on after a failed email
\* or date request).
C24_NothingEscapes ==
  [][/\ last'.result # "uncaught"
     /\ FailsNow(tog, tog') => tog' = Idle /\ togglingId' = NULL
     /\ FailsNow(qty, qty') => qty' = Idle /\ mutatingId' = NULL
     /\ FailsNow(cat, cat') => cat' = NoFetch
     /\ \A c \in CartIds : FailsNow(eff[c], eff'[c]) => eff'[c] = Idle
     /\ \A i \in DetailSlots :
          FailsNow(det[i], det'[i]) => det'[i] = NoFetch /\ detailLoading' = FALSE
     /\ \A i \in PaySlots :
          /\ FailsNow(pay[i], pay'[i]) /\ pay[i].pc = "create" =>
               pay'[i] = Idle /\ paying' = paying
          /\ FailsNow(pay[i], pay'[i]) /\ pay[i].pc = "customer" =>
               pay'[i] = Idle /\ paying' = FALSE
          /\ FailsNow(pay[i], pay'[i]) /\ pay[i].pc \in {"email", "date"} =>
               pay'[i].pc \in {"date", "customer"} /\ pay'[i].phase = "sent"
    ]_vars

C24_Witness ==
  /\ last = Event("pay", NULL, "alert_create_failed")
  /\ ~paying /\ Settled
  /\ togglingId = NULL /\ mutatingId = NULL /\ ~detailLoading
  /\ products # <<>>

\* C25: the step in which the request of fetchProducts fails, by status or by
\* network error, leaves the product list as it was and ends the call; the
\* only catalog request is the one of the mount step: once the call has
\* ended none is issued again.
C25_CatalogFailureKept ==
  [][/\ last'.op = "products" /\ last'.result \in Failures =>
          products' = products /\ cat' = NoFetch
     /\ cat'.phase = "sent" /\ cat' # cat => ~mounted /\ mounted'
     /\ mounted /\ cat = NoFetch => cat' = NoFetch
     /\ products' # products => cat.phase = "ok" /\ cat' = NoFetch
    ]_vars

C25_Witness ==
  /\ mounted /\ cat = NoFetch
  /\ last = Event("products", NULL, "bad")
  /\ products = <<>>

\* the reference begins with a URL scheme: letters, then a colon
HasScheme(raw) ==
  \E n \in 2..Len(raw) :
    raw[n] = ":" /\ \A k \in 1..(n - 1) : raw[k] \notin {"/", ":", "."}

\* the reference is a plain file name: no path, no scheme
IsBareFile(raw) == raw # <<>> /\ \A k \in 1..Len(raw) : raw[k] \notin {"/", ":"}

\* image is the normal form of raw as the claim gives it
Normalized(raw, image) ==
  /\ raw = <<>> => image = <<>>
  /\ IsBareFile(raw) => image = ImagesPrefix \o raw
  /\ HasScheme(raw) \/ StartsWith(raw, ImagesPrefix) => image = raw

\* C26 as stated: the product list the catalog load installs holds, product by
\* product, the normal form of the image reference the backend sent: absent
\* stays absent, a plain file name f becomes /images/f, a reference that
\* begins with a scheme or with /images/ stays as it is.
C26_ImagesNormalized ==
  [][products' # products =>
       /\ Len(products') = Len(cat.body)
       /\ \A k \in 1..Len(products') :
            Normalized(cat.body[k].imageUrl, products'[k].imageUrl)
    ]_vars

\* the references on which the page does as C26 says: absent, a file name
\* that does not begin with http, an http or https URL, a path under /images/
Ordinary(raw) ==
  \/ raw = <<>>
  \/ IsBareFile(raw) /\ ~StartsWith(raw, Http)
  \/ StartsWith(raw, Http \o <<":", "/", "/">>)
  \/ StartsWith(raw, Http \o <<"s", ":", "/", "/">>)
  \/ StartsWith(raw, ImagesPrefix)

\* what holds of C26: the list is normalized on those references
C26_OrdinaryNormalized ==
  [][products' # products =>
       /\ Len(products') = Len(cat.body)
       /\ \A k \in 1..Len(products') :
            Ordinary(cat.body[k].imageUrl) =>
              Normalized(cat.body[k].imageUrl, products'[k].imageUrl)
    ]_vars

\* C27 as stated: a cart id held in memory changes only in the reset of a
\* checkout whose customer POST succeeded, and then to null; nothing else
\* clears or replaces it; and a toggleAdd that starts with no id held awaits
\* a cart creation.
C27_HeldIdentityKept ==
  [][/\ cartId # NULL /\ cartId' # cartId => Resets
     /\ cartId = NULL /\ StartsToggleAdd => tog'.pc = "create"
    ]_vars

\* what holds of C27: a held id is cleared by the reset alone, and replaced
\* only by the end of a cart creation that was requested while no id was held
C27_ClearedByResetOnly ==
  [][/\ cartId # NULL /\ cartId' = NULL => Resets
     /\ cartId # NULL /\ cartId' \notin {NULL, cartId} => Creates
     /\ cartId = NULL /\ StartsToggleAdd => tog'.pc = "create"
    ]_vars

\* some call issues a cart-creation request in this step
IssuesCreation == \E k \in Callers : Issues(k, {"create"})

\* the step belongs to the catalog load, a summary fetch, toggleRemove or a
\* quantity change
NeverCreates ==
  \/ cat' # cat \/ products' # products
  \/ \E c \in CartIds : eff'[c] # eff[c]
  \/ qty' # qty
  \/ tog' # tog /\ "remove" \in {tog.pc, tog.did, tog'.pc}
  \/ tog' # tog /\ tog.pc = "summary"
  \/ last'.op \in {"toggleRemove", "increase", "decrease"}

\* C28: a cart-creation request is issued only while no cart id is held, and
\* only as the first request of a starting call: a toggleAdd, or a checkout
\* that has passed every validation. The mount step, the catalog load, the
\* summary fetches, toggleRemove, increaseQty and decreaseQty issue none, and
\* a persisted id found at mount becomes the id in memory with no creation
\* request and nothing created at the backend.
C28_LazyCreation ==
  [][/\ IssuesCreation =>
          /\ cartId = NULL
          /\ \A k \in Callers : Issues(k, {"create"}) => Starts(k)
          /\ tog' # tog => last' = NoEvent /\ togglingId' = tog'.productId
          /\ pay' # pay => PayRefusal = "none" /\ ~paying
     /\ ~mounted \/ NeverCreates => ~IssuesCreation /\ srvNext' = srvNext
     /\ ~mounted /\ mounted' /\ stored # NULL =>
          /\ cartId' = stored /\ stored' = stored
          /\ srvCart' = srvCart
    ]_vars

C28_Witness ==
  /\ cartId = NULL /\ stored = NULL
  /\ products # <<>>
  /\ Awaits(tog, "create", NULL)

\* a checkout that awaits its own cart creation
C28_CheckoutCreates ==
  /\ cartId = NULL
  /\ \E i \in PaySlots : Awaits(pay[i], "create", NULL)

\* C29: in the step in which a cart id becomes the id in memory, restored at
\* mount or returned by a cart creation, a summary GET for exactly that id is
\* issued by the [cartId] effect: it is awaited after the step, and it was
\* not before.
C29_SummaryForNewIdentity ==
  [][cartId' # NULL /\ cartId' # cartId =>
       /\ Restores \/ Creates
       /\ Awaits(eff'[cartId'], "summary", cartId')
       /\ eff'[cartId'] # eff[cartId']
    ]_vars

C29_Witness ==
  /\ cartId = MaxCarts /\ stored = MaxCarts
  /\ Awaits(eff[MaxCarts], "summary", MaxCarts)
  /\ Awaits(tog, "add", MaxCarts)

\* the refresh of a decreaseQty call has been answered
DecreaseRefreshed == qty.pc = "summary" /\ qty.did = "decrease" /\ qty.phase = "ok"

\* C30: decreaseQty refuses a call only when no cart id is held or a quantity
\* change is running, never because of the quantity displayed; a call that
\* goes through posts the decrease for the cart held. When the backend has
\* removed the line and the refresh succeeds, the summary displayed shows no
\* line for the product, and is the empty summary when the cart holds
\* nothing else.
C30_DecreaseUnbounded ==
  [][/\ last' = Event("decrease", last'.productId, "rejected") =>
          cartId = NULL \/ mutatingId # NULL
     /\ qty.pc = "idle" /\ qty'.pc = "decrease" =>
          /\ cartId # NULL
          /\ Awaits(qty', "decrease", cartId)
          /\ srvCart' = srvCart /\ summary' = summary
     /\ DecreaseRefreshed /\ qty'.pc = "idle" /\ srvCart[qty.id][qty.productId] = 0 =>
          /\ ~isInCartOf(summary', qty.productId)
          /\ srvCart[qty.id] = EmptyCart => summary' = EmptySummary
    ]_vars

C30_Witness ==
  /\ DecreaseRefreshed
  /\ summary = SummaryOf(RestoredCart)
  /\ srvCart[qty.id] = EmptyCart /\ qty.body = EmptySummary

\* C31: when the cart creation awaited by a validated checkout fails, the
\* checkout ends there with the creation-failure alert: it issues no email,
\* date or customer request, the paying flag, the cart id, the persisted id,
\* the summary and the form fields stay as they are, and nothing changes at
\* the backend.
C31_CheckoutCreationFails ==
  [][\A i \in PaySlots :
       CreationFails(i) =>
         /\ pay'[i] = Idle
         /\ ~\E j \in PaySlots : Issues(j, {"email", "date", "customer"})
         /\ last' = Event("pay", NULL, "alert_create_failed")
         /\ paying' = paying
         /\ cartId' = cartId /\ stored' = stored
         /\ summary' = summary
         /\ email' = email /\ addr' = addr /\ zip' = zip
         /\ srvNext' = srvNext /\ srvCart' = srvCart
    ]_vars

C31_Witness ==
  /\ last = Event("pay", NULL, "alert_create_failed")
  /\ ~paying
  /\ cartId = NULL /\ stored = NULL
  /\ summary # EmptySummary
  /\ EmailOk(Trim(email)) /\ Trim(addr) # <<>> /\ ZipOk(Trim(zip))

\* C32: whenever a cart id is held in memory the persisted id is that id; the
\* end of a successful cart creation sets both to the id the backend
\* returned, and the checkout reset clears both in one step.
C32_PersistedIsHeld ==
  /\ [](cartId # NULL => stored = cartId)
  /\ [][/\ \A k \in Callers :
             Before(k).pc = "create" /\ Before(k).phase = "ok" /\ After(k) # Before(k)
             => cartId' = Before(k).newId /\ stored' = Before(k).newId
        /\ (\E i \in PaySlots : CustomerSucceeds(i)) => cartId' = NULL /\ stored' = NULL
        /\ cartId # NULL /\ cartId' = NULL => stored' = NULL
       ]_vars

C32_Witness ==
  /\ cartId = MaxCarts /\ stored = MaxCarts
  /\ srvNext = MaxCarts + 1
  /\ \E i \in PaySlots : Awaits(pay[i], "customer", MaxCarts)

\* C33 as stated: the summary displayed belongs to the cart id held: with no
\* id held the summary is empty, and a step that installs the answer to a
\* summary fetch installs the answer for the id held.
C33_SummaryOfHeldCart ==
  /\ [](cartId = NULL => summary = EmptySummary)
  /\ [][/\ \A c \in CartIds :
             eff[c].pc = "summary" /\ eff[c].phase = "ok" /\ eff'[c] = Idle
             => eff[c].id = cartId
        /\ \A t \in {tog, qty} :
             t.pc = "summary" /\ t.phase = "ok" /\ summary' # summary
             => t.id = cartId
       ]_vars

\* the requests that name a cart
CartScoped == {"summary", "add", "remove", "increase", "decrease",
               "email", "date", "customer"}

\* every call and effect that can have a request pending
Pending == {tog, qty} \cup {pay[i] : i \in PaySlots} \cup {eff[c] : c \in DOMAIN eff}

\* C34: every pending request that names a cart names one the backend has
\* handed out, created for this page or restored at mount, never no id; and
\* a toggleRemove, increaseQty or decreaseQty called while no id is held
\* issues nothing.
C34_RequestsNameACart ==
  /\ [](\A t \in Pending : t.pc \in CartScoped => t.id # NULL /\ CartExists(t.id))
  /\ [][cartId = NULL /\ last'.op \in {"toggleRemove", "increase", "decrease"} =>
          /\ last'.result \in {"noop", "rejected"}
          /\ UNCHANGED <<tog, qty, pay, eff, srvNext, srvCart>>
       ]_vars

C34_Witness ==
  /\ cartId = NULL /\ summary # EmptySummary
  /\ last.op = "decrease" /\ last.result = "rejected"
  /\ mutatingId = NULL

\* checkout call i has set the paying flag and has not finished
HoldsPaying(i) == pay[i].pc \in {"email", "date", "customer"}

\* C35: a checkout call that has set the paying flag ends, and the flag is
\* false when it does, whatever its requests resolve to; so whenever the flag
\* is set it is cleared later.
C35_PayingCleared ==
  /\ \A i \in PaySlots : HoldsPaying(i) ~> (pay[i].pc = "idle" /\ ~paying)
  /\ paying ~> ~paying

C35_Witness ==
  /\ ~paying
  /\ \A i \in PaySlots : pay[i].pc = "idle"
  /\ last = Event("pay", NULL, "alert_pay_error")

\* no request of the order page is in flight
NoOrderRequest == \A s \in OrderSlots : ord[s].pc = "idle"

\* C36 as stated: on the order page, with no request in flight and no error
\* shown, the list displayed is the response to the request of the mode
\* selected.
C36_ListOfSelectedMode ==
  route = "order" /\ orderMounted /\ NoOrderRequest /\ orderErr = NoErr
  => /\ ordersFrom = RefreshKind
     /\ orders \in {IF dailyMode THEN DailyOrders ELSE AllOrders, <<>>}

\* the response awaited by onSubmit is a failure: it has arrived with a
\* non-success status and no resultCode starting with "200", or the fetch
\* is rejected
LoginFails ==
  /\ login.pc = "post" /\ login'.pc = "idle"
  /\ \/ login.phase = "sent"
     \/ /\ ~login.resp.httpOk
        /\ ~(Len(login.resp.resultCode) >= 3
             /\ SubSeq(login.resp.resultCode, 1, 3) = <<"2", "0", "0">>)

\* C37: from a state whose username is blank once trimmed or whose password
\* is empty no step issues a login request, stores a token or leaves the
\* login page; and when the login request fails, by a rejected fetch or by a
\* non-success status without a resultCode starting with "200", the token
\* stored stays as it is, the login page stays, and an error is shown.
C37_FailedLoginStoresNothing ==
  [][/\ login.pc = "idle" /\ (Trim(username) = <<>> \/ password = <<>>) =>
          /\ login' = login
          /\ adminToken' = adminToken /\ route' = route
     /\ LoginFails =>
          /\ adminToken' = adminToken /\ route' = "login"
          /\ loginErr' # NoErr /\ ~loginLoading'
    ]_vars

C37_Witness ==
  /\ route = "login" /\ adminToken = NoToken
  /\ last = Event("login", NULL, "failed")
  /\ loginErr = "failed" /\ ~loginLoading
  /\ Trim(username) # <<>> /\ password # <<>>

\* call s of handleSubmit ends in this step
SubmitEnds(s) == sub[s].pc # "idle" /\ sub'[s].pc = "idle"

\* C38: a submission starts, with the upload request, only from a form that
\* passes every validation; the add request is issued only by a call whose
\* upload has been answered with success and an image URL, and carries that
\* URL; the list refresh is issued only by a call whose add request has been
\* answered with success, and the handler closes the modal only when that
\* refresh has ended; a failed upload, an upload without URL and a failed add
\* end the call with the modal open; and every call that ends leaves
\* submitting false.
C38_AddAfterUpload ==
  [][\A s \in SubmitSlots :
       /\ sub[s].pc = "idle" /\ sub'[s].pc # "idle" =>
            /\ sub'[s].pc = "upload"
            /\ Trim(form.name) # <<>> /\ Trim(form.contents) # <<>>
            /\ form.price # <<>> /\ form.stock # <<>> /\ form.file # NoFile
            /\ ~submitting
       /\ sub'[s].pc = "add" /\ sub[s].pc # "add" =>
            /\ sub[s].pc = "upload" /\ sub[s].phase = "ok"
            /\ sub[s].imageUrl # <<>> /\ sub'[s].imageUrl = sub[s].imageUrl
       /\ sub'[s].pc = "refresh" /\ sub[s].pc # "refresh" =>
            sub[s].pc = "add" /\ sub[s].phase = "ok"
       /\ SubmitEnds(s) =>
            /\ ~submitting'
            /\ IF sub[s].pc = "refresh" THEN ~addOpen'
               ELSE addOpen' = addOpen /\ list' = list /\ modalErr' # NoErr
    ]_vars

C38_Witness ==
  /\ Len(srvList) = 1 /\ srvList[1].imageUrl = ImagesPrefix \o File
  /\ list = srvList
  /\ ~addOpen /\ ~submitting
  /\ \A s \in SubmitSlots : sub[s].pc = "idle"


\* C39: normalising an image reference twice gives what normalising it once
\* gives, for an absent reference, a file name, an http(s) URL, a path under
\* /images/ and the other references the backend may hold; so the image the
\* detail view shows, which normalises the reference of the stored detail
\* again, is the stored reference, and so is that of every listed product.
C39_NormalizeIdempotent ==
  /\ \A raw \in RawImages : resolveImage(resolveImage(raw)) = resolveImage(raw)
  /\ DetailSrc = detail.imageUrl
  /\ \A k \in 1..Len(products) : resolveImage(products[k].imageUrl) = products[k].imageUrl

\* the detail view shows a product whose file name was normalised on arrival
C39_Witness ==
  /\ detailOpen /\ ~detailLoading
  /\ detail.coffeeId # NULL
  /\ detail.imageUrl = ImagesPrefix \o File
  /\ DetailSrc = ImagesPrefix \o File

====
